---- MODULE Spec2Model ----
(***************************************************************************)
(* Task scheduler, resource manager and orchestrator of the agent          *)
(* orchestration package (app/agents/orchestration).                       *)
(*                                                                         *)
(* SpecPlan : TaskScheduler.create_execution_plan over bounded inputs.     *)
(* SpecRM   : ResourceManager driven by arbitrary callers.                 *)
(* Spec     : one orchestration run on top of the ResourceManager.         *)
(***************************************************************************)
EXTENDS Integers, Sequences, FiniteSets, TLC

VARIABLES
    \* ---- TaskScheduler ----
    sched_pc,            \* stage of create_execution_plan
    mr_changes,          \* input: list of change descriptors
    max_parallel_tasks,  \* config value
    tasks,               \* List[AnalysisTask]
    sorted_tasks,        \* result of the sort, as indices into tasks
    task_batches,        \* List[TaskBatch], tasks as indices into tasks
    \* ---- ResourceManager ----
    min_agents,          \* config value
    max_agents,          \* config value (also the executor's max_workers)
    rm,                  \* agent_pool, AgentInstance objects, task_queue, executor
    raises,              \* tasks on which agent.analyze raises
    \* ---- AgentOrchestrator (one run) ----
    orch_pc,             \* position of the coordinating thread
    progress,            \* OrchestrationProgress of the run
    registered,          \* review_id in current_orchestrations
    assign_idx,          \* next task of the batch to submit
    task_futures,        \* futures collected for the current batch
    wait_idx,            \* next future the coordinator waits for
    batch_results,       \* results of the current batch
    all_results,         \* results of the batches done so far
    report,              \* OrchestrationResult
    submitted,           \* history: tasks handed to assign_task by a caller
    cancelled_at,        \* history: current_batch when cancel returned True
    cancelled_after,     \* history: batches completed when cancel returned True between two batches
    last_assign,         \* history: what the last assign_task call of a caller did
    run_future,          \* outcome of the Future start_review_orchestration returned
    cancel_pc,           \* position of the thread inside cancel_orchestration
    progress_callback,   \* the caller's callback: "returns", "may_raise", or "raised" once it has
    last_notified,       \* history: the record as the callback last received it
    \* ---- ResourceManager, thread by thread ----
    locks,               \* owner of pool_lock, queue_lock and metrics_lock
    thread_pc,           \* position of the caller, of each task's worker and of the monitor
    metrics,             \* ResourceMetrics as last written by _update_metrics
    \* ---- AgentOrchestrator, statistics of concurrent runs ----
    stats,               \* total_, successful_ and failed_orchestrations
    runs,                \* per run: position and the value read for "+= 1"
    \* ---- UserAuthorizer ----
    pending_requests,    \* request_id -> AuthorizationRequest
    completed_requests,  \* request_id -> AuthorizationRequest
    waiters              \* threads inside wait_for_authorization

sched_vars == <<sched_pc, mr_changes, max_parallel_tasks, tasks, sorted_tasks, task_batches>>
rm_vars    == <<min_agents, max_agents, rm, raises>>
orch_vars  == <<orch_pc, progress, registered, assign_idx, task_futures, wait_idx,
                batch_results, all_results, report, submitted, cancelled_at,
                cancelled_after, last_assign, run_future, cancel_pc,
                progress_callback, last_notified>>
aux_vars   == <<locks, thread_pc, metrics, stats, runs, pending_requests,
                completed_requests, waiters>>
vars       == <<sched_vars, rm_vars, orch_vars, aux_vars>>

Range(s) == {s[i] : i \in DOMAIN s}

RECURSIVE SumSeq(_)
SumSeq(s) == IF s = <<>> THEN 0 ELSE Head(s) + SumSeq(Tail(s))

Min2(a, b) == IF a <= b THEN a ELSE b
Max2(a, b) == IF a >= b THEN a ELSE b

(***************************************************************************)
(* Enumerations                                                            *)
(***************************************************************************)
CRITICAL == 1
HIGH     == 2
MEDIUM   == 3
LOW      == 4

SIMPLE   == 1
MODERATE == 2
COMPLEX  == 3

(***************************************************************************)
(* Input universe of the scheduler: concrete change descriptors.           *)
(* A diff is described by what the scheduler reads from it: the strings    *)
(* captured by the import patterns, the number of "\n+" / "\n-" lines,     *)
(* its length, and the number of complexity keywords it contains.          *)
(***************************************************************************)
Paths == {"a.py", "b.py", "src/models/m.py", "src/auth.py", "docs/README.md"}

Change(new, old, del, imp, chg, size, kw) ==
    [new_path |-> new, old_path |-> old, deleted_file |-> del,
     diff |-> [imports |-> imp, total_changes |-> chg, diff_size |-> size, keywords |-> kw]]

ChA      == Change("a.py", "a.py", FALSE, {}, 3, 200, 0)
ChB      == Change("b.py", "b.py", FALSE, {}, 120, 12000, 2)
ChBonA   == Change("b.py", "b.py", FALSE, {"a.py"}, 20, 900, 1)
ChAonB   == Change("a.py", "a.py", FALSE, {"b"}, 3, 200, 0)
ChAself  == Change("a.py", "a.py", FALSE, {"a.py"}, 60, 6000, 0)
ChM      == Change("src/models/m.py", "src/models/m.py", FALSE, {}, 3, 200, 0)
ChMonA   == Change("src/models/m.py", "src/models/m.py", FALSE, {"a"}, 120, 12000, 8)
ChAuthM  == Change("src/auth.py", "src/auth.py", FALSE, {"m"}, 20, 900, 2)
ChDoc    == Change("docs/README.md", "docs/README.md", FALSE, {}, 3, 200, 0)
ChOldB   == Change("", "b.py", FALSE, {"m"}, 3, 200, 0)
ChDel    == Change("b.py", "b.py", TRUE, {}, 3, 200, 0)
ChNoPath == Change("", "", FALSE, {"a"}, 3, 200, 0)

Changes == {ChA, ChB, ChBonA, ChAonB, ChAself, ChM, ChMonA, ChAuthM, ChDoc,
            ChOldB, ChDel, ChNoPath}

MaxChanges == 3

MrIid == 7

ParallelChoices == {1, 2, 4}

\* "match in other_task.file_path" for the import strings of the universe
InPath(match, path) ==
    \/ match = path
    \/ match = "a" /\ path \in {"a.py", "src/auth.py"}
    \/ match = "b" /\ path = "b.py"
    \/ match = "m" /\ path \in {"src/models/m.py", "docs/README.md"}

(***************************************************************************)
(* TaskScheduler                                                           *)
(***************************************************************************)
max_analysis_time_per_file == 600

\* hashlib.md5(f"{mr_iid}_{file_path}").hexdigest()[:8]: determined by the
\* pair (mr_iid, file_path); distinct pairs of the universe give distinct ids.
generate_task_id(file_path, mr_iid) == <<"task", mr_iid, file_path>>

\* re.match of the three rule lists, in the order critical, high, low
CriticalPaths == {"src/models/m.py"}
HighPaths     == {"src/auth.py"}
LowPaths      == {"docs/README.md"}

determine_task_priority(file_path) ==
    IF file_path \in CriticalPaths THEN CRITICAL
    ELSE IF file_path \in HighPaths THEN HIGH
    ELSE IF file_path \in LowPaths THEN LOW
    ELSE MEDIUM

\* change.get('new_path') or change.get('old_path')
change_file_path(change) ==
    IF change.new_path # "" THEN change.new_path ELSE change.old_path

\* variant: the id also depends on the content of the descriptor
AnalysisTask_contentid(change, file_path, mr_iid) ==
    [task_id        |-> generate_task_id(file_path, mr_iid + change.diff.total_changes),
     file_path      |-> file_path,
     diff           |-> change.diff,
     priority       |-> determine_task_priority(file_path),
     complexity     |-> MODERATE,
     estimated_time |-> 300,
     dependencies   |-> {}]

\* the AnalysisTask built for one descriptor
AnalysisTask(change, file_path, mr_iid) ==
    [task_id        |-> generate_task_id(file_path, mr_iid),
     file_path      |-> file_path,
     diff           |-> change.diff,
     priority       |-> determine_task_priority(file_path),
     complexity     |-> MODERATE,
     estimated_time |-> 300,
     dependencies   |-> {}]

RECURSIVE create_analysis_tasks(_, _)
create_analysis_tasks(changes, mr_iid) ==
    IF changes = <<>> THEN <<>>
    ELSE LET change    == Head(changes)
             rest      == create_analysis_tasks(Tail(changes), mr_iid)
             file_path == change_file_path(change)
         IN  IF change.deleted_file THEN rest
             ELSE IF file_path = "" THEN rest
             ELSE <<AnalysisTask(change, file_path, mr_iid)>> \o rest

\* dependencies of one task: ids of the other tasks whose path contains a match
task_dependencies(ts, task) ==
    {ts[j].task_id : j \in {k \in DOMAIN ts :
        /\ ts[k].task_id # task.task_id
        /\ \E match \in task.diff.imports : InPath(match, ts[k].file_path)}}

analyze_task_dependencies(ts) ==
    [i \in DOMAIN ts |-> [ts[i] EXCEPT !.dependencies = task_dependencies(ts, ts[i])]]

\* the score is kept in half points (keywords add 0.5 each)
CodeSuffix(file_path) == file_path \in {"a.py", "b.py", "src/models/m.py", "src/auth.py"}

calculate_file_complexity(task) ==
    LET d == task.diff
        changes_score == IF d.total_changes > 100 THEN 6
                         ELSE IF d.total_changes > 50 THEN 4
                         ELSE IF d.total_changes > 10 THEN 2 ELSE 0
        size_score    == IF d.diff_size > 10000 THEN 4
                         ELSE IF d.diff_size > 5000 THEN 2 ELSE 0
        type_score    == IF CodeSuffix(task.file_path) THEN 2 ELSE 0
        score2        == changes_score + size_score + type_score + d.keywords
    IN  IF score2 >= 10 THEN COMPLEX
        ELSE IF score2 >= 4 THEN MODERATE
        ELSE SIMPLE

base_time(complexity) ==
    IF complexity = SIMPLE THEN 120
    ELSE IF complexity = MODERATE THEN 300 ELSE 600

estimate_analysis_time(task) ==
    LET base      == base_time(task.complexity)
        estimated == IF task.priority = CRITICAL THEN (base * 15) \div 10
                     ELSE IF task.priority = HIGH THEN (base * 12) \div 10
                     ELSE base
    IN  Min2(estimated, max_analysis_time_per_file)

calculate_task_metrics(ts) ==
    [i \in DOMAIN ts |->
        LET withC == [ts[i] EXCEPT !.complexity = calculate_file_complexity(ts[i])]
        IN  [withC EXCEPT !.estimated_time = estimate_analysis_time(withC)]]

\* key of ready_tasks.sort: (priority.value, complexity.value)
KeyLE(t1, t2) ==
    \/ t1.priority < t2.priority
    \/ t1.priority = t2.priority /\ t1.complexity <= t2.complexity

\* insert index i behind every element whose key is <= its own (stable sort)
RECURSIVE InsertStable(_, _, _)
InsertStable(ts, s, i) ==
    IF s = <<>> THEN <<i>>
    ELSE IF KeyLE(ts[Head(s)], ts[i]) THEN <<Head(s)>> \o InsertStable(ts, Tail(s), i)
    ELSE <<i>> \o s

RECURSIVE StableSort(_, _)
StableSort(ts, s) ==
    IF s = <<>> THEN <<>>
    ELSE InsertStable(ts, StableSort(ts, SubSeq(s, 1, Len(s) - 1)), s[Len(s)])

\* min(remaining_tasks, key=priority.value): the first one of minimal priority
RECURSIVE MinByPriority(_, _)
MinByPriority(ts, s) ==
    IF Len(s) = 1 THEN s[1]
    ELSE LET m == MinByPriority(ts, Tail(s))
         IN  IF ts[Head(s)].priority <= ts[m].priority THEN Head(s) ELSE m

ready_tasks_of(ts, remaining) ==
    LET remaining_ids == {ts[i].task_id : i \in Range(remaining)}
        Satisfied(i)  == ts[i].dependencies \cap remaining_ids = {}
    IN  SelectSeq(remaining, Satisfied)

\* variant: the last remaining task is forced
forced_task_last(ts, remaining) == remaining[Len(remaining)]

\* the task forced when no remaining task is ready
forced_task(ts, remaining) == MinByPriority(ts, remaining)

RECURSIVE sort_loop(_, _, _)
sort_loop(ts, sorted, remaining) ==
    IF remaining = <<>> THEN sorted
    ELSE LET ready0 == ready_tasks_of(ts, remaining)
             ready1 == IF ready0 = <<>> THEN <<forced_task(ts, remaining)>> ELSE ready0
             ready  == StableSort(ts, ready1)
             Left(i) == i \notin Range(ready)
         IN  sort_loop(ts, sorted \o ready, SelectSeq(remaining, Left))

\* variant: only the first round of the loop is run
sort_tasks_by_priority_and_dependencies_oneround(ts) ==
    StableSort(ts, ready_tasks_of(ts, [i \in 1..Len(ts) |-> i]))

sort_tasks_by_priority_and_dependencies(ts) ==
    sort_loop(ts, <<>>, [i \in 1..Len(ts) |-> i])

\* variant: the check of the task's own dependencies is missing
can_run_in_parallel_nodeps(ts, i, current_batch) ==
    \A j \in Range(current_batch) : ts[i].task_id \notin ts[j].dependencies

can_run_in_parallel(ts, i, current_batch) ==
    LET current_batch_ids == {ts[j].task_id : j \in Range(current_batch)}
    IN  /\ ts[i].dependencies \cap current_batch_ids = {}
        /\ \A j \in Range(current_batch) : ts[i].task_id \notin ts[j].dependencies

TaskBatch(batch_tasks, batch_time) ==
    [tasks |-> batch_tasks, estimated_total_time |-> batch_time,
     max_parallel_agents |-> Len(batch_tasks)]

\* variant: tasks join the current batch whatever their dependencies
can_add_to_current_anydeps(ts, mpt, i, cur, cur_time) ==
    /\ Len(cur) < mpt
    /\ cur_time + ts[i].estimated_time <= max_analysis_time_per_file * 2

can_add_to_current(ts, mpt, i, cur, cur_time) ==
    /\ Len(cur) < mpt
    /\ cur_time + ts[i].estimated_time <= max_analysis_time_per_file * 2
    /\ can_run_in_parallel(ts, i, cur)

\* variant: the current batch is emitted also when it is empty
emit_batch_always(batches, cur, cur_time) == Append(batches, TaskBatch(cur, cur_time))

\* "if current_batch_tasks: batches.append(TaskBatch(...))"
emit_batch(batches, cur, cur_time) ==
    IF cur # <<>> THEN Append(batches, TaskBatch(cur, cur_time)) ELSE batches

RECURSIVE group_loop(_, _, _, _, _, _)
group_loop(ts, mpt, sorted, batches, cur, cur_time) ==
    IF sorted = <<>>
    THEN emit_batch(batches, cur, cur_time)
    ELSE LET i == Head(sorted)
         IN  IF can_add_to_current(ts, mpt, i, cur, cur_time) /\ cur # <<>>
             THEN group_loop(ts, mpt, Tail(sorted), batches, Append(cur, i),
                             Max2(cur_time, ts[i].estimated_time))
             ELSE group_loop(ts, mpt, Tail(sorted), emit_batch(batches, cur, cur_time),
                             <<i>>, ts[i].estimated_time)

\* variant: the batch size is not limited by max_parallel_tasks
group_tasks_into_batches_unlimited(ts, mpt, sorted) ==
    group_loop(ts, Len(ts) + 1, sorted, <<>>, <<>>, 0)

group_tasks_into_batches(ts, mpt, sorted) ==
    group_loop(ts, mpt, sorted, <<>>, <<>>, 0)

\* the five stages of create_execution_plan, composed
planned_tasks(changes, mr_iid) ==
    calculate_task_metrics(analyze_task_dependencies(create_analysis_tasks(changes, mr_iid)))

create_execution_plan(changes, mr_iid, mpt) ==
    LET ts == planned_tasks(changes, mr_iid)
    IN  group_tasks_into_batches(ts, mpt, sort_tasks_by_priority_and_dependencies(ts))


(***************************************************************************)
(* ResourceManager                                                         *)
(*                                                                         *)
(* rm.agent_pool : agent ids in dict insertion order                       *)
(* rm.agents     : the AgentInstance objects (also those a running task    *)
(*                 still refers to after their removal from the pool)      *)
(* rm.task_queue : queued tasks (indices into tasks)                       *)
(* rm.exec_queue : work submitted to the ThreadPoolExecutor, not started   *)
(* rm.futures    : per submitted task, the state of its _run_task call     *)
(***************************************************************************)
IDLE    == "idle"
BUSY    == "busy"
ERROR   == "error"
OFFLINE == "offline"

auto_scale == TRUE

\* agent_timeout, in clock ticks; last_activity is kept as an age in ticks,
\* saturating just above the timeout
AgentTimeout == 1

\* seconds agent.analyze takes for a task: long for a complex file
execution_time_of(task) == IF task.complexity = COMPLEX THEN 700 ELSE 20

\* the executor work item of _execute_orchestration (task work items are 1, 2, ...)
ORCH == 0

\* Euclid's algorithm; the remainder is bound to r so that it is computed once
RECURSIVE GCD(_, _)
GCD(a, b) == IF b = 0 THEN a ELSE CHOOSE g \in {GCD(b, r) : r \in {a % b}} : TRUE

Frac(n, d) == LET g == GCD(n, d) IN [num |-> n \div g, den |-> d \div g]

FracLess(x, y) == x.num * y.den < y.num * x.den

NewAgentInstance ==
    [status |-> IDLE, current_task_id |-> 0, age |-> 0,
     total_tasks_completed |-> 0, total_analysis_time |-> 0,
     error_count |-> 0, performance_score |-> Frac(1, 1)]

\* average_response_time as a fraction (0.0 while nothing was completed)
average_response_time(a) ==
    IF a.total_tasks_completed = 0 THEN Frac(0, 1)
    ELSE Frac(a.total_analysis_time, a.total_tasks_completed)

\* 0.7 * success_rate + 0.3 * speed_score, clamped to [0.1, 1.0]
calculate_performance_score(a) ==
    IF a.total_tasks_completed = 0 THEN Frac(1, 1)
    ELSE LET c    == a.total_tasks_completed
             e    == a.error_count
             \* max(avg_time, 30) = d / c
             d    == Max2(a.total_analysis_time, 30 * c)
             \* speed_score = clamp(300 / (d / c), 0.1, 1.0)
             sp   == IF 300 * c >= d THEN Frac(1, 1)
                     ELSE IF 3000 * c <= d THEN Frac(1, 10)
                     ELSE Frac(300 * c, d)
             raw  == Frac(7 * c * sp.den + 3 * sp.num * (c + e), 10 * (c + e) * sp.den)
         IN  IF FracLess(raw, Frac(1, 10)) THEN Frac(1, 10)
             ELSE IF FracLess(Frac(1, 1), raw) THEN Frac(1, 1)
             ELSE raw

update_agent_performance(a, execution_time, success) ==
    IF success
    THEN LET a1 == [a EXCEPT !.total_tasks_completed = @ + 1,
                             !.total_analysis_time = @ + execution_time]
         IN  [a1 EXCEPT !.performance_score = calculate_performance_score(a1)]
    ELSE a

\* variant: the agent that completed the fewest tasks ranks highest
KeyLess_leastused(a, b) == a.total_tasks_completed > b.total_tasks_completed

\* key of max(): (performance_score, -average_response_time, total_tasks_completed)
KeyLess(a, b) ==
    \/ FracLess(a.performance_score, b.performance_score)
    \/ /\ a.performance_score = b.performance_score
       /\ \/ FracLess(average_response_time(b), average_response_time(a))
          \/ /\ average_response_time(a) = average_response_time(b)
             /\ a.total_tasks_completed < b.total_tasks_completed

\* max(available_agents, key=...): the first maximal one in pool order; 0 is None
RECURSIVE MaxByKey(_, _)
MaxByKey(ags, s) ==
    IF Len(s) = 1 THEN s[1]
    ELSE LET m == MaxByKey(ags, SubSeq(s, 1, Len(s) - 1))
         IN  IF KeyLess(ags[m], ags[s[Len(s)]]) THEN s[Len(s)] ELSE m

\* variant: every agent that is not BUSY counts as available
find_best_available_agent_notbusy(R) ==
    LET Available(id) == R.agents[id].status # BUSY
        available_agents == SelectSeq(R.agent_pool, Available)
    IN  IF available_agents = <<>> THEN 0 ELSE MaxByKey(R.agents, available_agents)

find_best_available_agent(R) ==
    LET Available(id) == R.agents[id].status = IDLE
        available_agents == SelectSeq(R.agent_pool, Available)
    IN  IF available_agents = <<>> THEN 0 ELSE MaxByKey(R.agents, available_agents)

busy_agents(R) == Cardinality({id \in Range(R.agent_pool) : R.agents[id].status = BUSY})

\* variant: any load counts as high
system_load_above_threshold_anyload(R) == R.agent_pool # <<>>

\* _get_system_load() > 0.8, with load = busy / len(pool) (0.0 for an empty pool)
system_load_above_threshold(R) ==
    /\ R.agent_pool # <<>>
    /\ 10 * busy_agents(R) > 8 * Len(R.agent_pool)

\* variant: the pool size is not compared with max_agents
can_scale_up_unbounded(R, maxA) ==
    /\ auto_scale
    /\ system_load_above_threshold(R)

can_scale_up(R, maxA) ==
    /\ auto_scale
    /\ Len(R.agent_pool) < maxA
    /\ system_load_above_threshold(R)

\* a fresh AgentInstance object; the id is one no live object carries
FreshAgentId(R) == CHOOSE id \in 1..(Cardinality(DOMAIN R.agents) + 1) : id \notin DOMAIN R.agents

create_agent_instance(R) ==
    LET id == FreshAgentId(R)
    IN  [R EXCEPT !.agents = [x \in DOMAIN R.agents \cup {id} |->
                                 IF x = id THEN NewAgentInstance ELSE R.agents[x]],
                  !.agent_pool = Append(@, id)]

execute_task_with_agent(R, task, id) ==
    [R EXCEPT !.agents[id] = [@ EXCEPT !.status = BUSY, !.current_task_id = task, !.age = 0],
              !.exec_queue = Append(@, task),
              !.futures = [x \in DOMAIN R.futures \cup {task} |->
                              IF x = task THEN [agent |-> id, st |-> "pending", ok |-> FALSE]
                              ELSE R.futures[x]]]

\* result: the new state, whether a Future was returned, and whether the call
\* raised; creatable tells whether CodeAnalyzer(config) can be constructed
\* (when it cannot, _create_agent_instance re-raises and nothing catches it)
assign_task(R, task, maxA, creatable) ==
    LET best_agent == find_best_available_agent(R)
    IN  IF best_agent # 0
        THEN [R |-> execute_task_with_agent(R, task, best_agent),
              future |-> TRUE, raised |-> FALSE]
        ELSE IF can_scale_up(R, maxA)
        THEN IF creatable
             THEN LET R1 == create_agent_instance(R)
                  IN  [R |-> execute_task_with_agent(R1, task,
                                                     R1.agent_pool[Len(R1.agent_pool)]),
                       future |-> TRUE, raised |-> FALSE]
             ELSE [R |-> R, future |-> FALSE, raised |-> TRUE]
        ELSE [R |-> [R EXCEPT !.task_queue = Append(@, task)],
              future |-> FALSE, raised |-> FALSE]

\* variant: the head is read but not taken from the queue
process_queued_tasks_nopop(R, maxA, creatable) ==
    IF R.task_queue = <<>> THEN R
    ELSE assign_task(R, Head(R.task_queue), maxA, creatable).R

\* task_queue.pop(0), then assign_task; an exception of assign_task leaves the
\* callback with the task already taken from the queue
process_queued_tasks(R, maxA, creatable) ==
    IF R.task_queue = <<>> THEN R
    ELSE assign_task([R EXCEPT !.task_queue = Tail(@)], Head(R.task_queue), maxA, creatable).R

\* what an assign_task call does, for the record of the last call: which branch
\* it took and, when it took an Idle agent, how that agent compares with the
\* other Idle agents ("better": some other Idle agent has a strictly smaller key)
assign_summary(R, task, maxA, creatable) ==
    LET res   == assign_task(R, task, maxA, creatable)
        idle  == {id \in Range(R.agent_pool) : R.agents[id].status = IDLE}
        best  == find_best_available_agent(R)
    IN  [task    |-> task,
         outcome |-> IF best # 0 THEN "idle"
                     ELSE IF res.raised THEN "raised"
                     ELSE IF res.future THEN "scaled" ELSE "queued",
         choice  |-> IF best = 0 THEN "none"
                     ELSE IF idle = {best} THEN "only"
                     ELSE IF \E id \in idle : KeyLess(R.agents[id], R.agents[best])
                          THEN "better" ELSE "tie"]

\* AgentInstance objects nothing refers to any more are dropped
Collect(R) ==
    LET live == Range(R.agent_pool) \cup
                {R.futures[t].agent : t \in {x \in DOMAIN R.futures : R.futures[x].st # "closed"}}
    IN  [R EXCEPT !.agents = [id \in live |-> R.agents[id]]]

\* variant: the agent is freed but the queue is not looked at
on_task_completed_noqueue(R, task, maxA, creatable) ==
    LET id == R.futures[task].agent
    IN  Collect([R EXCEPT !.agents[id] = [@ EXCEPT !.status = IDLE, !.current_task_id = 0,
                                                   !.age = 0],
                          !.futures[task].st = "closed"])

on_task_completed(R, task, maxA, creatable) ==
    LET id == R.futures[task].agent
        R1 == [R EXCEPT !.agents[id] = [@ EXCEPT !.status = IDLE, !.current_task_id = 0,
                                                 !.age = 0],
                        !.futures[task].st = "closed"]
    IN  Collect(process_queued_tasks(R1, maxA, creatable))

\* _run_task from the call of agent.analyze to its return or raise
run_task(R, task, success, execution_time) ==
    LET id == R.futures[task].agent
        a1 == update_agent_performance(R.agents[id], execution_time, success)
        a2 == IF success THEN a1
              ELSE [a1 EXCEPT !.status = ERROR, !.error_count = @ + 1]
    IN  [R EXCEPT !.agents[id] = a2, !.futures[task].st = "done", !.futures[task].ok = success,
                  !.analyze_calls = [x \in DOMAIN @ \cup {task} |->
                                        IF x = task
                                        THEN (IF x \in DOMAIN @ THEN @[x] ELSE 0) + 1
                                        ELSE @[x]]]

\* variant: the status of the agent is not looked at
cleanup_inactive_agents_anystatus(R, minA) ==
    LET Remove(id) == /\ R.agents[id].age > AgentTimeout
                      /\ Len(R.agent_pool) > minA
        Keep(id)   == ~Remove(id)
    IN  Collect([R EXCEPT !.agent_pool = SelectSeq(@, Keep)])

cleanup_inactive_agents(R, minA) ==
    LET Remove(id) == /\ R.agents[id].status # BUSY
                      /\ R.agents[id].age > AgentTimeout
                      /\ Len(R.agent_pool) > minA
        Keep(id)   == ~Remove(id)
    IN  Collect([R EXCEPT !.agent_pool = SelectSeq(@, Keep)])

RECURSIVE initialize_agent_pool(_, _)
initialize_agent_pool(R, n) ==
    IF n = 0 THEN R ELSE initialize_agent_pool(create_agent_instance(R), n - 1)

\* analyze_calls is a history field: how often agent.analyze was called for a task
EmptyRM == [agent_pool |-> <<>>, agents |-> <<>>, task_queue |-> <<>>,
            exec_queue |-> <<>>, futures |-> <<>>, analyze_calls |-> <<>>]

\* threads of the executor that are running something
BusyThreads(R, opc) ==
    Cardinality({t \in DOMAIN R.futures : R.futures[t].st \in {"running", "done"}})
    + (IF opc \in {"idle", "submitted", "finished"} THEN 0 ELSE 1)

\* Waits of minutes (a result timeout, the agent timeout) elapse only while no
\* step that takes no time is due: a free executor thread takes queued work
\* at once, and a finished task's done callback runs at once.
Quiescent(R, opc, maxA) ==
    /\ R.exec_queue = <<>> \/ BusyThreads(R, opc) >= maxA
    /\ \A t \in DOMAIN R.futures : R.futures[t].st # "done"

FutureDone(R, t) == t \in DOMAIN R.futures /\ R.futures[t].st \in {"done", "closed"}


(***************************************************************************)
(* SpecPlan: create_execution_plan, stage by stage                         *)
(***************************************************************************)
RECURSIVE SeqsUpTo(_, _)
SeqsUpTo(S, n) ==
    IF n = 0 THEN {<<>>}
    ELSE LET shorter == SeqsUpTo(S, n - 1)
         IN  shorter \cup {Append(q, x) : q \in {r \in shorter : Len(r) = n - 1}, x \in S}

NoProgress == [state |-> "initializing", total_tasks |-> 0, completed_tasks |-> 0,
               failed_tasks |-> 0, current_batch |-> 0, total_batches |-> 0]

NoReport == [present |-> FALSE]

NoAssign == [task |-> 0, outcome |-> "none", choice |-> "none"]

NoNotification == [NoProgress EXCEPT !.state = "none"]

OrchIdle ==
    /\ orch_pc = "idle"
    /\ progress = NoProgress
    /\ registered = FALSE
    /\ assign_idx = 0
    /\ task_futures = <<>>
    /\ wait_idx = 0
    /\ batch_results = <<>>
    /\ all_results = <<>>
    /\ report = NoReport
    /\ submitted = {}
    /\ cancelled_at = -1
    /\ cancelled_after = -1
    /\ last_assign = NoAssign
    /\ run_future = "pending"
    /\ cancel_pc = "idle"
    /\ last_notified = NoNotification

\* threads: the one calling assign_task, the executor thread running a task,
\* the monitoring thread; NoThread owns a lock that nobody holds
NoThread == <<"none", 0>>

CallerThread == <<"caller", 0>>

MonitorThread == <<"monitor", 0>>

WorkerThread(t) == <<"worker", t>>

\* no lock is held: threading.RLock() as constructed
NoLocks == [pool_lock |-> NoThread, queue_lock |-> NoThread, metrics_lock |-> NoThread]

\* ResourceMetrics(0, 0, 0, 0, 0, 0.0, 0.0, 0.0) with system_load as the
\* fraction [num, den]
NoMetrics == [total_agents |-> 0, idle_agents |-> 0, busy_agents |-> 0, error_agents |-> 0,
              queued_tasks |-> 0, system_load |-> [num |-> 0, den |-> 1]]

NoStats == [total_orchestrations |-> 0, successful_orchestrations |-> 0,
            failed_orchestrations |-> 0]

\* the parts of the state that belong to the thread-level specifications
AuxIdle ==
    /\ locks = NoLocks
    /\ thread_pc = <<>>
    /\ metrics = NoMetrics
    /\ stats = NoStats
    /\ runs = <<>>
    /\ pending_requests = <<>>
    /\ completed_requests = <<>>
    /\ waiters = <<>>

InitPlan ==
    /\ sched_pc = "new"
    /\ mr_changes \in SeqsUpTo(Changes, MaxChanges)
    /\ max_parallel_tasks \in ParallelChoices
    /\ tasks = <<>>
    /\ sorted_tasks = <<>>
    /\ task_batches = <<>>
    /\ min_agents = 0
    /\ max_agents = 0
    /\ rm = EmptyRM
    /\ raises = {}
    /\ OrchIdle
    /\ AuxIdle
    /\ progress_callback = "returns"

CreateAnalysisTasks ==
    /\ sched_pc = "new"
    /\ tasks' = create_analysis_tasks(mr_changes, MrIid)
    /\ sched_pc' = "created"
    /\ UNCHANGED <<aux_vars, mr_changes, max_parallel_tasks, sorted_tasks, task_batches, rm_vars, orch_vars>>

AnalyzeTaskDependencies ==
    /\ sched_pc = "created"
    /\ tasks' = analyze_task_dependencies(tasks)
    /\ sched_pc' = "analyzed"
    /\ UNCHANGED <<aux_vars, mr_changes, max_parallel_tasks, sorted_tasks, task_batches, rm_vars, orch_vars>>

CalculateTaskMetrics ==
    /\ sched_pc = "analyzed"
    /\ tasks' = calculate_task_metrics(tasks)
    /\ sched_pc' = "measured"
    /\ UNCHANGED <<aux_vars, mr_changes, max_parallel_tasks, sorted_tasks, task_batches, rm_vars, orch_vars>>

SortTasks ==
    /\ sched_pc = "measured"
    /\ sorted_tasks' = sort_tasks_by_priority_and_dependencies(tasks)
    /\ sched_pc' = "sorted"
    /\ UNCHANGED <<aux_vars, mr_changes, max_parallel_tasks, tasks, task_batches, rm_vars, orch_vars>>

GroupTasksIntoBatches ==
    /\ sched_pc = "sorted"
    /\ task_batches' = group_tasks_into_batches(tasks, max_parallel_tasks, sorted_tasks)
    /\ sched_pc' = "planned"
    /\ UNCHANGED <<aux_vars, mr_changes, max_parallel_tasks, tasks, sorted_tasks, rm_vars, orch_vars>>

NextPlan ==
    \/ CreateAnalysisTasks
    \/ AnalyzeTaskDependencies
    \/ CalculateTaskMetrics
    \/ SortTasks
    \/ GroupTasksIntoBatches

SpecPlan == InitPlan /\ [][NextPlan]_vars

(***************************************************************************)
(* Plan predicates                                                         *)
(***************************************************************************)
\* index of the batch that holds task i (0 if none)
BatchOf(batches, i) ==
    IF \E b \in DOMAIN batches : i \in Range(batches[b].tasks)
    THEN CHOOSE b \in DOMAIN batches : i \in Range(batches[b].tasks)
    ELSE 0

\* task i lists task j in its dependencies
DependsOn(ts, i, j) == ts[j].task_id \in ts[i].dependencies

RECURSIVE AcyclicFrom(_, _)
AcyclicFrom(ts, remaining) ==
    IF remaining = {} THEN TRUE
    ELSE LET ids   == {ts[i].task_id : i \in remaining}
             ready == {i \in remaining : ts[i].dependencies \cap ids = {}}
         IN  IF ready = {} THEN FALSE ELSE AcyclicFrom(ts, remaining \ ready)

Acyclic(ts) == AcyclicFrom(ts, DOMAIN ts)

\* C1: in a plan over an acyclic task set, a dependency's batch comes strictly
\* before the batch of every task that depends on it; a.py and b.py (which
\* imports a.py) are planned as two singleton batches, a.py first.
C1_DependencyBatchOrder ==
    (sched_pc = "planned" /\ Acyclic(tasks)) =>
        /\ \A i, j \in DOMAIN tasks :
              DependsOn(tasks, i, j) =>
                 \A bi, bj \in DOMAIN task_batches :
                    (i \in Range(task_batches[bi].tasks) /\ j \in Range(task_batches[bj].tasks))
                        => bj < bi
        /\ mr_changes = <<ChA, ChBonA>> =>
              /\ Len(task_batches) = 2
              /\ [b \in 1..2 |-> [k \in DOMAIN task_batches[b].tasks |->
                                     tasks[task_batches[b].tasks[k]].file_path]]
                 = << <<"a.py">>, <<"b.py">> >>

C1_Witness ==
    /\ sched_pc = "planned"
    /\ Acyclic(tasks)
    /\ Len(tasks) = 3
    /\ \E i, j \in DOMAIN tasks : DependsOn(tasks, i, j) /\ BatchOf(task_batches, j) = 1
                                     /\ BatchOf(task_batches, i) = 2
    /\ max_parallel_tasks = 4

\* C13: every batch of a plan is non-empty and holds at most
\* max_parallel_tasks tasks.
C13_BatchCapacity ==
    sched_pc = "planned" =>
        \A b \in DOMAIN task_batches :
            /\ Len(task_batches[b].tasks) >= 1
            /\ Len(task_batches[b].tasks) <= max_parallel_tasks

\* three tasks without dependencies and a limit of two: the limit closes the
\* first batch
C13_Witness ==
    /\ sched_pc = "planned"
    /\ max_parallel_tasks = 2
    /\ Len(tasks) = 3
    /\ \A i \in DOMAIN tasks : tasks[i].dependencies = {}
    /\ Len(task_batches) = 2
    /\ Len(task_batches[1].tasks) = 2

\* C14: whatever the dependency graph (cyclic ones included), no batch holds
\* two tasks of which one lists the other in its dependencies.
C14_NoDependencyInsideBatch ==
    sched_pc = "planned" =>
        \A b \in DOMAIN task_batches :
            \A i, j \in Range(task_batches[b].tasks) : ~DependsOn(tasks, i, j)

\* a cyclic graph in which the task forced out first is listed by no task of
\* its cycle, planned with room for all three tasks in one batch
C14_Witness ==
    /\ sched_pc = "planned"
    /\ ~Acyclic(tasks)
    /\ max_parallel_tasks = 4
    /\ Len(tasks) = 3
    /\ Len(task_batches) = 3
    /\ \E i, j \in DOMAIN tasks :
          /\ DependsOn(tasks, i, j) /\ ~DependsOn(tasks, j, i)
          /\ BatchOf(task_batches, i) < BatchOf(task_batches, j)

\* descriptors of the input for which a task is created
RECURSIVE task_paths(_)
task_paths(changes) ==
    IF changes = <<>> THEN <<>>
    ELSE LET c == Head(changes)
         IN  IF ~c.deleted_file /\ (c.new_path # "" \/ c.old_path # "")
             THEN <<IF c.new_path # "" THEN c.new_path ELSE c.old_path>>
                  \o task_paths(Tail(changes))
             ELSE task_paths(Tail(changes))

\* number of occurrences of task i in the batches
Occurrences(batches, i) ==
    SumSeq([b \in DOMAIN batches |->
               Cardinality({k \in DOMAIN batches[b].tasks : batches[b].tasks[k] = i})])

\* C15: one task per descriptor that is not deleted and has a path, in input
\* order; sorting keeps every task exactly once; every task is in exactly one
\* batch, exactly once -- also for cyclic dependencies.
C15_PlanIsPartition ==
    /\ sched_pc # "new" =>
          [i \in DOMAIN tasks |-> tasks[i].file_path] = task_paths(mr_changes)
    /\ sched_pc \in {"sorted", "planned"} =>
          /\ Len(sorted_tasks) = Len(tasks)
          /\ Range(sorted_tasks) = DOMAIN tasks
    /\ sched_pc = "planned" =>
          /\ \A i \in DOMAIN tasks : Occurrences(task_batches, i) = 1
          /\ \A b \in DOMAIN task_batches :
                Range(task_batches[b].tasks) \subseteq DOMAIN tasks

\* a deleted descriptor is skipped and the two remaining tasks, which depend
\* on each other, are both planned
C15_Witness ==
    /\ sched_pc = "planned"
    /\ Len(mr_changes) = 3
    /\ \E k \in DOMAIN mr_changes : mr_changes[k].deleted_file
    /\ Len(tasks) = 2
    /\ ~Acyclic(tasks)
    /\ Len(task_batches) = 2

\* C26: a task's id is a function of the run identifier and the target path
\* only: tasks for the same path have the same id wherever their descriptors
\* stand in the input, the id is the one the descriptor gets when it is
\* planned alone, and planning the input again gives the same ids.
C26_TaskIdsReproducible ==
    sched_pc # "new" =>
        /\ \A i, j \in DOMAIN tasks :
              tasks[i].file_path = tasks[j].file_path => tasks[i].task_id = tasks[j].task_id
        /\ \A k \in DOMAIN mr_changes : \A i \in DOMAIN tasks :
              LET alone == create_analysis_tasks(<<mr_changes[k]>>, MrIid)
              IN  (alone # <<>> /\ alone[1].file_path = tasks[i].file_path)
                      => alone[1].task_id = tasks[i].task_id
        /\ LET again == create_analysis_tasks(mr_changes, MrIid)
           IN  [i \in DOMAIN again |-> again[i].task_id]
                   = [i \in DOMAIN tasks |-> tasks[i].task_id]

\* the same path occurs at the first and at the last position of the input,
\* with different content
C26_Witness ==
    /\ sched_pc = "planned"
    /\ Len(tasks) = 3
    /\ tasks[1].file_path = tasks[3].file_path
    /\ tasks[1].diff # tasks[3].diff
    /\ tasks[2].file_path # tasks[1].file_path

\* C27: for an empty list of changes every stage yields an empty result and
\* the plan has zero batches.
C27_EmptyInputEmptyPlan ==
    mr_changes = <<>> =>
        /\ tasks = <<>>
        /\ sorted_tasks = <<>>
        /\ task_batches = <<>>

\* the plan of the empty list was completed
C27_Witness ==
    /\ sched_pc = "planned"
    /\ mr_changes = <<>>
    /\ task_batches = <<>>

\* tasks at the positions k.. of the sorted list
RemainingFrom(k) == {sorted_tasks[n] : n \in k..Len(sorted_tasks)}

\* no task of the set has all its dependencies outside the set
NoneReady(ts, rem) ==
    \A i \in rem : ts[i].dependencies \cap {ts[j].task_id : j \in rem} # {}

\* C28: the ordering is complete for every dependency graph, and wherever no
\* remaining task is ready the task ordered next has the lowest priority
\* value of the remaining tasks.
C28_OrderingTerminatesByForcing ==
    sched_pc \in {"sorted", "planned"} =>
        /\ Len(sorted_tasks) = Len(tasks)
        /\ \A k \in DOMAIN sorted_tasks :
              NoneReady(tasks, RemainingFrom(k)) =>
                  \A j \in RemainingFrom(k) :
                      tasks[sorted_tasks[k]].priority <= tasks[j].priority

\* all three tasks are on a cycle and the forced one is neither the first nor
\* the last of the input
C28_Witness ==
    /\ sched_pc = "sorted"
    /\ Len(tasks) = 3
    /\ NoneReady(tasks, DOMAIN tasks)
    /\ sorted_tasks[1] = 2


(***************************************************************************)
(* ResourceManager actions (worker threads, monitoring thread, clock)      *)
(***************************************************************************)
\* an executor thread takes the next submitted _run_task call
StartTask(t) ==
    /\ rm.exec_queue # <<>>
    /\ Head(rm.exec_queue) = t
    /\ BusyThreads(rm, orch_pc) < max_agents
    /\ rm' = [rm EXCEPT !.exec_queue = Tail(@), !.futures[t].st = "running"]
    /\ UNCHANGED <<aux_vars, sched_vars, min_agents, max_agents, raises, orch_vars>>

\* _run_task: agent.analyze returns or raises; the Future becomes done
RunTask(t) ==
    /\ t \in DOMAIN rm.futures
    /\ rm.futures[t].st = "running"
    /\ rm' = run_task(rm, t, tasks[t].file_path \notin raises, execution_time_of(tasks[t]))
    /\ UNCHANGED <<aux_vars, sched_vars, min_agents, max_agents, raises, orch_vars>>

\* the Future's done callback, _on_task_completed, under pool_lock
OnTaskCompleted(t) ==
    /\ t \in DOMAIN rm.futures
    /\ rm.futures[t].st = "done"
    /\ \E creatable \in BOOLEAN : rm' = on_task_completed(rm, t, max_agents, creatable)
    /\ UNCHANGED <<aux_vars, sched_vars, min_agents, max_agents, raises, orch_vars>>

\* one pass of the monitoring thread over the pool
CleanupInactiveAgents ==
    /\ rm' = cleanup_inactive_agents(rm, min_agents)
    /\ rm' # rm
    /\ UNCHANGED <<aux_vars, sched_vars, min_agents, max_agents, raises, orch_vars>>

\* time passes: every last_activity grows one tick older
Tick ==
    /\ \E id \in DOMAIN rm.agents : rm.agents[id].age <= AgentTimeout
    /\ Quiescent(rm, orch_pc, max_agents)
    /\ rm' = [rm EXCEPT !.agents = [id \in DOMAIN rm.agents |->
                  [rm.agents[id] EXCEPT !.age = Min2(@ + 1, AgentTimeout + 1)]]]
    /\ UNCHANGED <<aux_vars, sched_vars, min_agents, max_agents, raises, orch_vars>>

NextWorkers ==
    \/ \E t \in DOMAIN tasks : StartTask(t)
    \/ \E t \in DOMAIN tasks : RunTask(t)
    \/ \E t \in DOMAIN tasks : OnTaskCompleted(t)
    \/ CleanupInactiveAgents
    \/ Tick

(***************************************************************************)
(* SpecRM: the ResourceManager with callers that assign tasks at any time  *)
(***************************************************************************)
MaxPool == 2

\* (min_agents, max_agents) with 1 <= min_agents <= max_agents
PoolConfigs == {c \in (1..MaxPool) \X (1..MaxPool) : c[1] <= c[2]}

RMChanges == <<ChA, ChB, ChM>>

InitRM ==
    /\ sched_pc = "planned"
    /\ mr_changes = RMChanges
    /\ max_parallel_tasks = 4
    /\ tasks = planned_tasks(mr_changes, MrIid)
    /\ sorted_tasks = sort_tasks_by_priority_and_dependencies(tasks)
    /\ task_batches = group_tasks_into_batches(tasks, max_parallel_tasks, sorted_tasks)
    /\ \E c \in PoolConfigs : min_agents = c[1] /\ max_agents = c[2]
    /\ rm = initialize_agent_pool(EmptyRM, min_agents)
    /\ raises \in SUBSET {"a.py", "b.py"}
    /\ OrchIdle
    /\ AuxIdle
    /\ progress_callback = "returns"

\* some caller invokes assign_task(task)
CallerAssign(t) ==
    /\ t \notin submitted
    /\ \E creatable \in BOOLEAN :
          /\ rm' = assign_task(rm, t, max_agents, creatable).R
          /\ last_assign' = assign_summary(rm, t, max_agents, creatable)
    /\ submitted' = submitted \cup {t}
    /\ UNCHANGED <<aux_vars, sched_vars, min_agents, max_agents, raises, orch_pc, progress, registered,
                   assign_idx, task_futures, wait_idx, batch_results, all_results, report,
                   cancelled_at, cancelled_after, run_future, cancel_pc,
                   progress_callback, last_notified>>

NextRM ==
    \/ \E t \in DOMAIN tasks : CallerAssign(t)
    \/ NextWorkers

SpecRM == InitRM /\ [][NextRM]_vars

\* the executor runs what was submitted to it, agent.analyze returns or raises,
\* and a finished Future's callback is run; callers and the monitoring thread
\* are under no obligation
WorkerStep ==
    \E t \in DOMAIN tasks : StartTask(t) \/ RunTask(t) \/ OnTaskCompleted(t)

FairWorkers == WF_vars(WorkerStep)

SpecRMFair == SpecRM /\ FairWorkers


(***************************************************************************)
(* AgentOrchestrator: one run (review_id) from start_review_orchestration  *)
(* to _on_orchestration_completed, and cancel_orchestration                *)
(***************************************************************************)
\* variant: the batches are counted instead of their tasks
total_tasks_of_batches(execution_plan) == Len(execution_plan)

total_tasks_of(execution_plan) ==
    SumSeq([b \in DOMAIN execution_plan |-> Len(execution_plan[b].tasks)])

successful_results(results) == SelectSeq(results, LAMBDA r : r.success)

failed_results(results) == SelectSeq(results, LAMBDA r : ~r.success)

\* task_futures[task.task_id] = (task, future): a later entry with the same
\* key replaces the value and keeps the position of the key
put_task_future(futs, task_id, t) ==
    IF \E k \in DOMAIN futs : futs[k].task_id = task_id
    THEN [k \in DOMAIN futs |-> IF futs[k].task_id = task_id
                                THEN [task_id |-> task_id, task |-> t] ELSE futs[k]]
    ELSE Append(futs, [task_id |-> task_id, task |-> t])

file_result(ts, entry, success, error) ==
    [task_id |-> entry.task_id, task |-> entry.task, file_path |-> ts[entry.task].file_path,
     success |-> success, error |-> error]

aggregate_results(file_results) ==
    [present              |-> TRUE,
     total_files_analyzed |-> Len(successful_results(file_results)),
     total_files          |-> Len(file_results),
     successful_analyses  |-> Len(successful_results(file_results)),
     failed_analyses      |-> Len(failed_results(file_results)),
     file_results         |-> file_results]

StartReviewOrchestration ==
    /\ orch_pc = "idle"
    /\ progress' = NoProgress
    /\ registered' = TRUE
    /\ rm' = [rm EXCEPT !.exec_queue = Append(@, ORCH)]
    /\ orch_pc' = "submitted"
    /\ UNCHANGED <<aux_vars, sched_vars, min_agents, max_agents, raises, assign_idx, task_futures,
                   wait_idx, batch_results, all_results, report, submitted,
                   cancelled_at, cancelled_after, last_assign, run_future, cancel_pc,
                   progress_callback, last_notified>>

\* whether this invocation of the caller's callback raises
CallbackRaises == IF progress_callback = "returns" THEN {FALSE} ELSE BOOLEAN

\* variant: no try/except around the call of the callback
notify_progress_uncaught(cb_registered, cb_raises) ==
    [invoked |-> cb_registered, exception |-> cb_registered /\ cb_raises]

\* _notify_progress: whether the callback is invoked, and whether an exception
\* leaves _notify_progress
notify_progress(cb_registered, cb_raises) ==
    [invoked |-> cb_registered, exception |-> FALSE]

\* variant: the except clause does not re-raise
orchestration_failed_swallowed(P, e) ==
    [progress |-> [P EXCEPT !.state = "error"], future |-> "result"]

\* the except clause of _execute_orchestration: state ERROR, and the exception
\* e is re-raised into the run's Future
orchestration_failed(P, e) ==
    [progress |-> [P EXCEPT !.state = "error"], future |-> e]

\* the callback receives the record as it is when it is invoked
Invoked(n, cb_raises) ==
    /\ last_notified' = IF n.invoked THEN progress' ELSE last_notified
    /\ progress_callback' = IF n.invoked /\ cb_raises THEN "raised" ELSE progress_callback

\* "progress.<field> = ...; self._notify_progress(review_id, progress)" inside
\* the try block: P is the record after the assignment, pc the position and fut
\* the Future's outcome when nothing is raised; an exception that leaves
\* _notify_progress is handled by the except clause like any other
NotifyInTry(P, pc, fut, cb_raises) ==
    LET n == notify_progress(registered, cb_raises)
        F == orchestration_failed(P, "callback_error")
    IN  /\ progress' = IF n.exception THEN F.progress ELSE P
        /\ orch_pc' = IF n.exception THEN "returned" ELSE pc
        /\ run_future' = IF n.exception THEN F.future ELSE fut
        /\ Invoked(n, cb_raises)

\* the except clause entered with exception e: state ERROR, the callback, raise
NotifyInExcept(P, e, cb_raises) ==
    LET n == notify_progress(registered, cb_raises)
        F == orchestration_failed(P, IF n.exception THEN "callback_error" ELSE e)
    IN  /\ progress' = F.progress
        /\ orch_pc' = "returned"
        /\ run_future' = F.future
        /\ Invoked(n, cb_raises)

\* an executor thread begins _execute_orchestration
BeginOrchestration ==
    /\ orch_pc = "submitted"
    /\ Head(rm.exec_queue) = ORCH
    /\ BusyThreads(rm, orch_pc) < max_agents
    /\ rm' = [rm EXCEPT !.exec_queue = Tail(@)]
    /\ \E cb_raises \in CallbackRaises :
          NotifyInTry([progress EXCEPT !.state = "planning"], "planning", run_future,
                      cb_raises)
    /\ UNCHANGED <<aux_vars, sched_vars, min_agents, max_agents, raises, registered, assign_idx,
                   task_futures, wait_idx, batch_results, all_results, report, submitted,
                   cancelled_at, cancelled_after, last_assign, cancel_pc>>

CreateExecutionPlan ==
    /\ orch_pc = "planning"
    /\ tasks' = planned_tasks(mr_changes, MrIid)
    /\ sorted_tasks' = sort_tasks_by_priority_and_dependencies(tasks')
    /\ task_batches' = group_tasks_into_batches(tasks', max_parallel_tasks, sorted_tasks')
    /\ sched_pc' = "planned"
    /\ \E cb_raises \in CallbackRaises :
          NotifyInTry([progress EXCEPT !.total_tasks = total_tasks_of(task_batches'),
                                       !.total_batches = Len(task_batches'),
                                       !.state = "executing"],
                      "batch", run_future, cb_raises)
    /\ UNCHANGED <<aux_vars, mr_changes, max_parallel_tasks, rm_vars, registered, assign_idx,
                   task_futures, wait_idx, batch_results, all_results, report, submitted,
                   cancelled_at, cancelled_after, last_assign, cancel_pc>>

\* _create_execution_plan raises (the change provider fails)
PlanningRaises ==
    /\ orch_pc = "planning"
    /\ \E cb_raises \in CallbackRaises :
          NotifyInExcept(progress, "planning_error", cb_raises)
    /\ UNCHANGED <<aux_vars, sched_vars, rm_vars, registered, assign_idx, task_futures, wait_idx,
                   batch_results, all_results, report, submitted,
                   cancelled_at, cancelled_after, last_assign, cancel_pc>>

\* head of the loop over the batches, or its exit into the aggregation phase
NextBatch ==
    /\ orch_pc = "batch"
    /\ \E cb_raises \in CallbackRaises :
          IF progress.current_batch < Len(task_batches)
          THEN /\ NotifyInTry([progress EXCEPT !.current_batch = @ + 1], "assign",
                              run_future, cb_raises)
               /\ assign_idx' = 1
               /\ task_futures' = <<>>
          ELSE /\ NotifyInTry([progress EXCEPT !.state = "aggregating"], "aggregate",
                              run_future, cb_raises)
               /\ UNCHANGED <<assign_idx, task_futures>>
    /\ UNCHANGED <<aux_vars, sched_vars, rm_vars, registered, wait_idx, batch_results, all_results,
                   report, submitted, cancelled_at, cancelled_after, last_assign,
                   cancel_pc>>

\* one iteration of "for task in batch.tasks: assign_task(task)"; an exception
\* of assign_task leaves _execute_task_batch and _execute_analysis_plan and is
\* handled by _execute_orchestration (state ERROR, re-raised)
AssignNext ==
    /\ orch_pc = "assign"
    /\ \E creatable \in BOOLEAN, cb_raises \in CallbackRaises :
        LET batch == task_batches[progress.current_batch]
            t     == batch.tasks[assign_idx]
            res   == assign_task(rm, t, max_agents, creatable)
        IN  /\ rm' = res.R
            /\ last_assign' = assign_summary(rm, t, max_agents, creatable)
            /\ submitted' = submitted \cup {t}
            /\ IF res.raised
               THEN /\ NotifyInExcept(progress, "creation_error", cb_raises)
                    /\ UNCHANGED <<task_futures, assign_idx, wait_idx, batch_results>>
               ELSE /\ cb_raises = FALSE
                    /\ task_futures' = IF res.future
                                       THEN put_task_future(task_futures, tasks[t].task_id, t)
                                       ELSE task_futures
                    /\ UNCHANGED <<progress, run_future, progress_callback, last_notified>>
                    /\ IF assign_idx < Len(batch.tasks)
                       THEN /\ assign_idx' = assign_idx + 1
                            /\ UNCHANGED <<orch_pc, wait_idx, batch_results>>
                       ELSE /\ orch_pc' = "wait"
                            /\ wait_idx' = 1
                            /\ batch_results' = <<>>
                            /\ UNCHANGED assign_idx
    /\ UNCHANGED <<aux_vars, sched_vars, min_agents, max_agents, raises, registered,
                   all_results, report, cancelled_at, cancelled_after, cancel_pc>>

\* future.result(timeout=...) for the next collected future
WaitNext ==
    /\ orch_pc = "wait"
    /\ wait_idx <= Len(task_futures)
    /\ LET entry == task_futures[wait_idx]
       IN  \/ /\ FutureDone(rm, entry.task)
              /\ batch_results' = Append(batch_results,
                    IF rm.futures[entry.task].ok
                    THEN file_result(tasks, entry, TRUE, "")
                    ELSE file_result(tasks, entry, FALSE, "raised"))
           \/ /\ ~FutureDone(rm, entry.task)
              /\ Quiescent(rm, orch_pc, max_agents)
              /\ batch_results' = Append(batch_results,
                    file_result(tasks, entry, FALSE, "timeout"))
    /\ wait_idx' = wait_idx + 1
    /\ UNCHANGED <<aux_vars, sched_vars, rm_vars, orch_pc, progress, registered, assign_idx,
                   task_futures, all_results, report, submitted,
                   cancelled_at, cancelled_after, last_assign, run_future, cancel_pc,
                   progress_callback, last_notified>>

\* _execute_task_batch returns; the progress counters are updated
FinishBatch ==
    /\ orch_pc = "wait"
    /\ wait_idx > Len(task_futures)
    /\ all_results' = all_results \o batch_results
    /\ progress' = [progress EXCEPT
                       !.completed_tasks = @ + Len(successful_results(batch_results)),
                       !.failed_tasks = @ + Len(failed_results(batch_results))]
    /\ orch_pc' = "batch"
    /\ UNCHANGED <<aux_vars, sched_vars, rm_vars, registered, assign_idx, task_futures, wait_idx,
                   batch_results, report, submitted,
                   cancelled_at, cancelled_after, last_assign, run_future, cancel_pc,
                   progress_callback, last_notified>>

\* _aggregate_results, state COMPLETED, return of _execute_orchestration
CompleteOrchestration ==
    /\ orch_pc = "aggregate"
    /\ \E cb_raises \in CallbackRaises :
          NotifyInTry([progress EXCEPT !.state = "completed"], "returned", "result",
                      cb_raises)
    /\ report' = IF run_future' = "result" /\ progress'.state = "completed"
                 THEN aggregate_results(all_results) ELSE report
    /\ UNCHANGED <<aux_vars, sched_vars, rm_vars, registered, assign_idx, task_futures, wait_idx,
                   batch_results, all_results, submitted,
                   cancelled_at, cancelled_after, last_assign, cancel_pc>>

\* done callback of the run's Future
OnOrchestrationCompleted ==
    /\ orch_pc = "returned"
    /\ registered' = FALSE
    /\ orch_pc' = "finished"
    /\ UNCHANGED <<aux_vars, sched_vars, rm_vars, progress, assign_idx, task_futures, wait_idx,
                   batch_results, all_results, report, submitted,
                   cancelled_at, cancelled_after, last_assign, run_future, cancel_pc,
                   progress_callback, last_notified>>

\* the first statement of cancel_orchestration(review_id) when it returns
\* True: progress.state = CANCELLED
CancelAssignsState ==
    /\ registered
    /\ progress.state # "cancelled"
    /\ progress' = [progress EXCEPT !.state = "cancelled"]
    /\ cancelled_at' = IF cancelled_at = -1 /\ orch_pc \in {"batch", "assign", "wait"}
                       THEN progress.current_batch ELSE cancelled_at
    /\ cancelled_after' = IF /\ cancelled_at = -1
                              /\ orch_pc = "batch"
                              /\ progress.current_batch < Len(task_batches)
                           THEN progress.current_batch ELSE cancelled_after
    /\ UNCHANGED <<aux_vars, sched_vars, rm_vars, orch_pc, registered, assign_idx, task_futures,
                   wait_idx, batch_results, all_results, report, submitted, last_assign,
                   run_future>>

\* cancel_orchestration(review_id) returning True, its two statements taken
\* together: progress.state = CANCELLED; self._notify_progress(...)
CancelOrchestration ==
    /\ cancel_pc = "idle"
    /\ CancelAssignsState
    /\ \E cb_raises \in CallbackRaises :
          Invoked(notify_progress(registered, cb_raises), cb_raises)
    /\ UNCHANGED cancel_pc

\* the same call when other threads run between its two statements (the
\* calling thread holds no lock): first the assignment
CancelBegins ==
    /\ cancel_pc = "idle"
    /\ CancelAssignsState
    /\ cancel_pc' = "notify"
    /\ UNCHANGED <<progress_callback, last_notified>>

\* then self._notify_progress(review_id, progress) and return True
CancelNotify ==
    /\ cancel_pc = "notify"
    /\ cancel_pc' = "idle"
    /\ \E cb_raises \in CallbackRaises :
          /\ UNCHANGED progress
          /\ Invoked(notify_progress(registered, cb_raises), cb_raises)
    /\ UNCHANGED <<aux_vars, sched_vars, rm_vars, orch_pc, registered, assign_idx, task_futures,
                   wait_idx, batch_results, all_results, report, submitted,
                   cancelled_at, cancelled_after, last_assign, run_future>>

\* the steps of the thread that runs _execute_orchestration
NextRun ==
    \/ StartReviewOrchestration
    \/ BeginOrchestration
    \/ CreateExecutionPlan
    \/ PlanningRaises
    \/ NextBatch
    \/ AssignNext
    \/ WaitNext
    \/ FinishBatch
    \/ CompleteOrchestration
    \/ OnOrchestrationCompleted

NextOrchestrator ==
    \/ NextRun
    \/ CancelOrchestration

RunInputs == {<<ChA, ChBonA>>, <<ChA, ChBonA, ChM>>, <<ChAonB, ChBonA>>}

Init ==
    /\ sched_pc = "new"
    /\ mr_changes \in RunInputs
    /\ max_parallel_tasks = 4
    /\ tasks = <<>>
    /\ sorted_tasks = <<>>
    /\ task_batches = <<>>
    /\ \E c \in PoolConfigs : min_agents = c[1] /\ max_agents = c[2]
    /\ rm = initialize_agent_pool(EmptyRM, min_agents)
    /\ raises \in SUBSET {"a.py", "b.py"}
    /\ OrchIdle
    /\ AuxIdle
    /\ progress_callback = "returns"

\* one run with its workers; the thread that called cancel_orchestration is
\* not interrupted between its two statements
Next ==
    \/ NextOrchestrator
    \/ NextWorkers

Spec == Init /\ [][Next]_vars

\* one run whose callback may raise at any invocation, and in which the steps
\* of the run and of the workers may lie between the two statements of
\* cancel_orchestration
InitNotify ==
    /\ sched_pc = "new"
    /\ mr_changes = <<ChA, ChBonA, ChM>>
    /\ max_parallel_tasks = 4
    /\ tasks = <<>>
    /\ sorted_tasks = <<>>
    /\ task_batches = <<>>
    /\ min_agents = 1
    /\ max_agents = MaxPool
    /\ rm = initialize_agent_pool(EmptyRM, min_agents)
    /\ raises \in SUBSET {"a.py"}
    /\ OrchIdle
    /\ AuxIdle
    /\ progress_callback = "may_raise"

NextNotify ==
    \/ NextRun
    \/ CancelBegins
    \/ CancelNotify
    \/ NextWorkers

SpecNotify == InitNotify /\ [][NextNotify]_vars


(***************************************************************************)
(* Properties of the run and of the pool                                   *)
(***************************************************************************)
\* the coordinator's wait for task t ended with a timeout
TimedOut(t) ==
    \E r \in Range(all_results) \cup Range(batch_results) : r.task = t /\ r.error = "timeout"

\* task t resolved: its Future is done, or the wait for it timed out
Resolved(t) == FutureDone(rm, t) \/ TimedOut(t)

\* _run_task has begun for task t
Started(t) == t \in DOMAIN rm.futures /\ rm.futures[t].st # "pending"

\* tasks the plan contains on which the worker raises
RaisingTasks == {t \in DOMAIN tasks : tasks[t].file_path \in raises}

NoTimeouts == \A r \in Range(all_results) : r.error # "timeout"

\* C2: no task of batch N+1 is handed to the ResourceManager before every
\* task of batch N has resolved (success, failure or timeout).
C2_BatchesStrictlySequential ==
    \A t \in submitted : \A u \in DOMAIN tasks :
        BatchOf(task_batches, u) + 1 = BatchOf(task_batches, t) => Resolved(u)

\* C3: over an acyclic task set, a task does not start executing before
\* every task it depends on has finished executing.
C3_DependenciesFinishFirst ==
    Acyclic(tasks) =>
        \A t \in DOMAIN tasks : Started(t) =>
            \A u \in DOMAIN tasks : DependsOn(tasks, t, u) => FutureDone(rm, u)

\* C4: a worker never has two unfinished tasks, and while a task handed to
\* it is unfinished the worker is Busy with exactly that task.
Unfinished(t) == t \in DOMAIN rm.futures /\ rm.futures[t].st \in {"pending", "running"}

C4_OneTaskPerWorker ==
    \A t \in DOMAIN rm.futures : Unfinished(t) =>
        /\ rm.agents[rm.futures[t].agent].status = BUSY
        /\ rm.agents[rm.futures[t].agent].current_task_id = t
        /\ \A u \in DOMAIN rm.futures :
              (Unfinished(u) /\ rm.futures[u].agent = rm.futures[t].agent) => u = t

\* a worker runs its second task while another task waits in the queue
C4_Witness ==
    /\ \E t, u \in DOMAIN rm.futures :
          /\ rm.futures[t].st = "running"
          /\ rm.futures[u].st = "closed"
          /\ rm.agents[rm.futures[t].agent].total_tasks_completed
             + rm.agents[rm.futures[t].agent].error_count = 1
    /\ rm.task_queue # <<>>

\* C5: the pool never holds more than max_agents workers.
C5_PoolAtMostMax == Len(rm.agent_pool) <= max_agents

\* the pool was grown to max_agents and a further task had to be queued
C5_Witness ==
    /\ min_agents < max_agents
    /\ Len(rm.agent_pool) = max_agents
    /\ rm.task_queue # <<>>

\* C6: the pool never holds fewer than min_agents workers.
C6_PoolAtLeastMin == Len(rm.agent_pool) >= min_agents

\* C7: once the run has completed (and no wait timed out), the successful
\* count is total - |F| and the failed count is |F|, F being the planned
\* tasks on which the worker raises.
C7_PartialFailureCounts ==
    (report.present /\ NoTimeouts) =>
        /\ report.successful_analyses = progress.total_tasks - Cardinality(RaisingTasks)
        /\ report.failed_analyses = Cardinality(RaisingTasks)

\* C8: once the run has completed, every task of the plan has exactly one
\* entry in the report's result list, and successes + failures = total_tasks.
C8_EveryTaskReported ==
    report.present =>
        /\ \A t \in DOMAIN tasks :
              Cardinality({k \in DOMAIN report.file_results :
                              report.file_results[k].task = t}) = 1
        /\ report.successful_analyses + report.failed_analyses = progress.total_tasks

\* C9: completed_tasks + failed_tasks never exceeds total_tasks.
C9_ProgressWithinTotal ==
    progress.completed_tasks + progress.failed_tasks <= progress.total_tasks

\* every planned task was counted, some as completed and some as failed
C9_Witness ==
    /\ progress.total_tasks = 3
    /\ progress.completed_tasks >= 1
    /\ progress.failed_tasks >= 1
    /\ progress.completed_tasks + progress.failed_tasks = progress.total_tasks

\* C10: after cancel_orchestration returned True during the execution phase,
\* no further batch is started.
C10_NoBatchAfterCancel ==
    cancelled_at # -1 => progress.current_batch = cancelled_at

\* ResultsOfBatches(k): the results of the first k batches
ResultsOfBatches(k) ==
    SelectSeq(all_results, LAMBDA r : BatchOf(task_batches, r.task) <= k)

\* C11: a run cancelled after exactly k of its batches completed (k less than
\* the number of batches) ends in state Cancelled and reports exactly the
\* results of those k batches.
C11_CancelledRunKeepsCompletedBatches ==
    (cancelled_after # -1 /\ orch_pc \in {"returned", "finished"}) =>
        /\ progress.state = "cancelled"
        /\ report.present
        /\ report.file_results = ResultsOfBatches(cancelled_after)

\* transitions the state of a progress record may make
Terminal(state) == state \in {"completed", "error", "cancelled"}

AllowedTransition(from, to) ==
    \/ <<from, to>> \in {<<"initializing", "planning">>, <<"planning", "executing">>,
                         <<"executing", "aggregating">>, <<"aggregating", "completed">>}
    \/ ~Terminal(from) /\ to \in {"error", "cancelled"}

\* C12: the state only moves Initializing -> Planning -> Executing ->
\* Aggregating -> Completed, or from a non-terminal state to Error or
\* Cancelled; a terminal state never changes.
C12_StateMachineOneWay ==
    [][progress'.state # progress.state =>
          AllowedTransition(progress.state, progress'.state)]_vars

\* agent a ranks strictly above agent b in the order (performance score,
\* -average response time, total completed)
Outranks(a, b) ==
    \/ FracLess(b.performance_score, a.performance_score)
    \/ /\ ~FracLess(a.performance_score, b.performance_score)
       /\ \/ FracLess(average_response_time(a), average_response_time(b))
          \/ /\ ~FracLess(average_response_time(b), average_response_time(a))
             /\ a.total_tasks_completed > b.total_tasks_completed

IdleAgents(R) == {id \in Range(R.agent_pool) : R.agents[id].status = IDLE}

\* the step is a caller's assign_task(t)
IsAssignCall(t) == t \notin submitted /\ t \in submitted'

\* C16: when some worker is Idle, assign_task hands the task to an Idle worker
\* that no other Idle worker outranks; a task is never handed to a worker of
\* the pool that is not Idle.
C16_BestFitAssignment ==
    [][\A t \in DOMAIN tasks : IsAssignCall(t) =>
          /\ IdleAgents(rm) # {} =>
                /\ t \in DOMAIN rm'.futures
                /\ rm'.futures[t].agent \in IdleAgents(rm)
                /\ \A id \in IdleAgents(rm) :
                      ~Outranks(rm.agents[id], rm.agents[rm'.futures[t].agent])
          /\ t \in DOMAIN rm'.futures =>
                \/ rm'.futures[t].agent \in IdleAgents(rm)
                \/ rm'.futures[t].agent \notin Range(rm.agent_pool)]_vars

\* the last call had the choice between Idle workers of different rank, and
\* the task it placed has not been taken up yet
C16_Witness ==
    /\ last_assign.choice = "better"
    /\ last_assign.task \in DOMAIN rm.futures
    /\ rm.futures[last_assign.task].st = "pending"

\* busy / total > 0.8 for the pool of R
LoadAboveEightTenths(R) ==
    /\ R.agent_pool # <<>>
    /\ 10 * Cardinality({id \in Range(R.agent_pool) : R.agents[id].status = BUSY})
          > 8 * Len(R.agent_pool)

C18_CreationFailureQueues ==
    last_assign.outcome = "raised" =>
        /\ progress.state # "error"
        /\ \/ last_assign.task \in Range(rm.task_queue)
           \/ last_assign.task \in DOMAIN rm.futures

\* C19: a worker in Error stays in the pool and in Error (no operation resets
\* it).
C19_ErrorWorkerStaysInError ==
    [][\A id \in Range(rm.agent_pool) : rm.agents[id].status = ERROR =>
          /\ id \in Range(rm'.agent_pool)
          /\ rm'.agents[id].status = ERROR]_vars

\* C20: no step removes a Busy worker from the pool.
C20_BusyWorkerNeverReclaimed ==
    [][\A id \in Range(rm.agent_pool) : rm.agents[id].status = BUSY =>
          id \in Range(rm'.agent_pool)]_vars

\* a pass removed a worker that had finished its task and kept the Busy
\* worker, whose last activity is older than the timeout
C20_Witness ==
    /\ \E t \in DOMAIN rm.futures :
          rm.futures[t].st = "closed" /\ rm.futures[t].agent \notin Range(rm.agent_pool)
    /\ \E id \in Range(rm.agent_pool) :
          rm.agents[id].status = BUSY /\ rm.agents[id].age > AgentTimeout
    /\ Len(rm.agent_pool) < max_agents


\* the step is the done callback of task t
IsCompletionCallback(t) ==
    /\ t \in DOMAIN rm.futures
    /\ rm.futures[t].st = "done"
    /\ rm'.futures[t].st = "closed"

\* C21: when a worker's task completes while the queue is non-empty, the head
\* of the queue is handed to a worker and the rest of the queue keeps its
\* order.
C21_QueueHeadDispatchedFirst ==
    [][\A t \in DOMAIN tasks :
          (IsCompletionCallback(t) /\ rm.task_queue # <<>>) =>
              /\ Head(rm.task_queue) \in DOMAIN rm'.futures
              /\ rm'.futures[Head(rm.task_queue)].st = "pending"
              /\ rm'.task_queue = Tail(rm.task_queue)]_vars


\* C22: provided started tasks finish, a task in the queue is eventually
\* executed.
C22_QueuedTaskEventuallyRuns ==
    \A t \in 1..Len(RMChanges) :
        (t \in Range(rm.task_queue)) ~> FutureDone(rm, t)

\* C23: when planning raises, the state becomes Error and the exception is the
\* outcome of the run's Future; no task of the run has been or is ever handed
\* to the ResourceManager.
C23_PlanningFailureAbortsRun ==
    /\ [][(orch_pc = "planning" /\ orch_pc' = "returned") =>
              (progress'.state = "error" /\ run_future' = "planning_error")]_vars
    /\ [](run_future = "planning_error" =>
              /\ submitted = {}
              /\ DOMAIN rm.futures = {}
              /\ rm.task_queue = <<>>
              /\ ~report.present)

C23_Witness ==
    /\ orch_pc = "finished"
    /\ sched_pc = "new"
    /\ run_future = "planning_error"
    /\ progress.state = "error"
    /\ submitted = {}

\* C24: an exception of the progress callback is never the outcome of the
\* run, the Error state arises only from a planning or a worker-creation
\* failure, the counters are those of the collected results, and a run that
\* returns delivers the report of all its results.
C24_CallbackExceptionContained ==
    /\ run_future # "callback_error"
    /\ progress.state = "error" => run_future \in {"planning_error", "creation_error"}
    /\ progress.completed_tasks = Len(successful_results(all_results))
    /\ progress.failed_tasks = Len(failed_results(all_results))
    /\ run_future = "result" => report = aggregate_results(all_results)

C24_Witness ==
    /\ progress_callback = "raised"
    /\ orch_pc = "finished"
    /\ progress.state = "completed"
    /\ run_future = "result"
    /\ report.present
    /\ report.total_files = 3

\* every assignment of a state to the record is followed by an invocation of
\* the callback in which the record shows that state
TransitionNotified ==
    /\ (progress'.state # progress.state /\ progress'.state # "cancelled") =>
           last_notified' = progress'
    /\ (progress'.state # progress.state /\ progress'.state = "cancelled") =>
           (last_notified' = progress' \/ cancel_pc' = "notify")
    /\ (cancel_pc = "notify" /\ cancel_pc' = "idle") => last_notified'.state = "cancelled"

\* while tasks of a batch are submitted or awaited, and in the aggregation
\* phase, the callback has received the counts of all earlier batches
BatchNotified ==
    orch_pc \in {"assign", "wait", "aggregate"} =>
        /\ last_notified.completed_tasks = Len(successful_results(all_results))
        /\ last_notified.failed_tasks = Len(failed_results(all_results))
        /\ last_notified.current_batch = progress.current_batch

\* C25: the callback is invoked after every state transition with the new
\* state, and after every batch, with that batch's results counted, before a
\* task of a later batch is submitted.
C25_CallbackAfterEveryTransitionAndBatch ==
    [][TransitionNotified]_vars /\ []BatchNotified

\* Optional[OrchestrationProgress] as a set of at most one record
get_orchestration_status == IF registered THEN {progress} ELSE {}

\* C30: the status of a started run is its progress record while the run is
\* in flight, and nothing once it has completed or has been cancelled.
C30_StatusOnlyWhileInFlight ==
    /\ (orch_pc \notin {"idle", "finished"} /\ progress.state # "cancelled") =>
           get_orchestration_status = {progress}
    /\ orch_pc = "finished" => get_orchestration_status = {}
    /\ progress.state = "cancelled" => get_orchestration_status = {}

\* C29: within a run agent.analyze is called at most once for each task,
\* whether the task failed, timed out or waited in the queue.
C29_WorkerInvokedAtMostOncePerTask ==
    \A t \in DOMAIN rm.analyze_calls : rm.analyze_calls[t] <= 1

C29_Witness ==
    /\ orch_pc = "finished"
    /\ \E r \in Range(all_results) :
          /\ r.error = "timeout"
          /\ r.task \in DOMAIN rm.analyze_calls
          /\ rm.analyze_calls[r.task] = 1
    /\ \E t \in DOMAIN rm.futures :
          /\ rm.futures[t].st = "closed"
          /\ ~rm.futures[t].ok
          /\ rm.analyze_calls[t] = 1
    /\ last_assign.outcome = "queued"
    /\ last_assign.task \in DOMAIN rm.analyze_calls
    /\ rm.analyze_calls[last_assign.task] = 1

\* the sort key of a task precedes that of another one
KeyBefore(t1, t2) ==
    \/ t1.priority < t2.priority
    \/ t1.priority = t2.priority /\ t1.complexity < t2.complexity

\* the tasks not placed before position k whose dependencies all are
EligibleAt(k) ==
    {i \in RemainingFrom(k) :
        tasks[i].dependencies \cap {tasks[j].task_id : j \in RemainingFrom(k)} = {}}

\* C31: in the order over an acyclic task set, the task at each position has
\* the lowest (priority, complexity) pair of the tasks not yet placed whose
\* dependencies are all placed before that position, the earliest discovered
\* one among equal pairs.
C31_EachPositionLowestEligible ==
    (sched_pc \in {"sorted", "planned"} /\ Acyclic(tasks)) =>
        \A k \in DOMAIN sorted_tasks :
            /\ sorted_tasks[k] \in EligibleAt(k)
            /\ \A i \in EligibleAt(k) :
                  /\ ~KeyBefore(tasks[i], tasks[sorted_tasks[k]])
                  /\ ~KeyBefore(tasks[sorted_tasks[k]], tasks[i]) => sorted_tasks[k] <= i

\* the sum of the estimated durations of the tasks of a batch
batch_duration(batch) ==
    SumSeq([k \in DOMAIN batch.tasks |-> tasks[batch.tasks[k]].estimated_time])

\* C32: the estimated durations of the tasks of a batch add up to at most
\* twice max_analysis_time_per_file.
C32_BatchDurationWithinCeiling ==
    sched_pc = "planned" =>
        \A b \in DOMAIN task_batches :
            batch_duration(task_batches[b]) <= 2 * max_analysis_time_per_file

\* C39: whenever a task waits in the queue, no agent of the pool is Idle.
C39_WorkConserving ==
    rm.task_queue # <<>> => IdleAgents(rm) = {}

\* a task waits in the queue after an earlier task has completed, and every
\* agent of the pool is occupied
C39_Witness ==
    /\ rm.task_queue # <<>>
    /\ rm.agent_pool # <<>>
    /\ \A id \in Range(rm.agent_pool) : rm.agents[id].status = BUSY
    /\ \E t \in DOMAIN rm.futures : rm.futures[t].st = "closed"

\* the step is the coordinator's future.result(timeout) for task t running
\* into its timeout
IsResultTimeout(t) ==
    /\ orch_pc = "wait"
    /\ wait_idx <= Len(task_futures)
    /\ task_futures[wait_idx].task = t
    /\ wait_idx' = wait_idx + 1
    /\ batch_results'[Len(batch_results')].error = "timeout"

\* no executor thread is occupied by a task
NoTaskOnAThread ==
    \A t \in DOMAIN rm.futures : rm.futures[t].st \notin {"running", "done"}

\* C36: a task handed to a worker is never given up by the coordinator while
\* it has not started and no other task occupies an executor thread, that is,
\* while the coordinator's own thread is what keeps it from starting.
C36_TaskStartsWithoutCoordinatorFinishing ==
    [][\A t \in DOMAIN tasks :
          IsResultTimeout(t) => ~(rm.futures[t].st = "pending" /\ NoTaskOnAThread)]_vars


(***************************************************************************)
(* AgentOrchestrator statistics: several runs on the executor's threads    *)
(***************************************************************************)
MaxRuns == 3

NewRun == [pc |-> "new", ok |-> FALSE, loaded |-> 0]

InitStats ==
    /\ sched_pc = "new"
    /\ mr_changes = <<>>
    /\ max_parallel_tasks = 4
    /\ tasks = <<>>
    /\ sorted_tasks = <<>>
    /\ task_batches = <<>>
    /\ \E c \in PoolConfigs : min_agents = c[1] /\ max_agents = c[2]
    /\ rm = initialize_agent_pool(EmptyRM, min_agents)
    /\ raises = {}
    /\ OrchIdle
    /\ progress_callback = "returns"
    /\ locks = NoLocks
    /\ thread_pc = <<>>
    /\ metrics = NoMetrics
    /\ stats = NoStats
    /\ runs = [r \in 1..MaxRuns |-> NewRun]
    /\ pending_requests = <<>>
    /\ completed_requests = <<>>
    /\ waiters = <<>>

\* executor threads that are inside _execute_orchestration
RunsOnThreads == {r \in DOMAIN runs : runs[r].pc \in {"executing", "loaded"}}

\* start_review_orchestration, called by one thread for one review after the
\* other: total_orchestrations += 1 and executor.submit
StartRun(r) ==
    /\ runs[r].pc = "new"
    /\ \A q \in DOMAIN runs : q < r => runs[q].pc # "new"
    /\ stats' = [stats EXCEPT !.total_orchestrations = @ + 1]
    /\ runs' = [runs EXCEPT ![r].pc = "submitted"]
    /\ UNCHANGED <<sched_vars, rm_vars, orch_vars, locks, thread_pc, metrics,
                   pending_requests, completed_requests, waiters>>

\* a free executor thread takes the submitted _execute_orchestration call
ExecuteRun(r) ==
    /\ runs[r].pc = "submitted"
    /\ Cardinality(RunsOnThreads) < max_agents
    /\ runs' = [runs EXCEPT ![r].pc = "executing"]
    /\ UNCHANGED <<sched_vars, rm_vars, orch_vars, locks, thread_pc, metrics, stats,
                   pending_requests, completed_requests, waiters>>

\* the attribute that "+= 1" at the end of _execute_orchestration works on
counter_of(ok) == IF ok THEN "successful_orchestrations" ELSE "failed_orchestrations"

\* the body of _execute_orchestration ends, normally or in the except branch,
\* and the thread loads the attribute for "+= 1"
RunLoadsCounter(r) ==
    /\ runs[r].pc = "executing"
    /\ \E ok \in BOOLEAN :
          runs' = [runs EXCEPT ![r] = [pc |-> "loaded", ok |-> ok,
                                       loaded |-> stats[counter_of(ok)]]]
    /\ UNCHANGED <<sched_vars, rm_vars, orch_vars, locks, thread_pc, metrics, stats,
                   pending_requests, completed_requests, waiters>>

\* the thread stores the loaded value plus one and returns or re-raises
RunStoresCounter(r) ==
    /\ runs[r].pc = "loaded"
    /\ stats' = [stats EXCEPT ![counter_of(runs[r].ok)] = runs[r].loaded + 1]
    /\ runs' = [runs EXCEPT ![r].pc = "done"]
    /\ UNCHANGED <<sched_vars, rm_vars, orch_vars, locks, thread_pc, metrics,
                   pending_requests, completed_requests, waiters>>

NextStats ==
    \/ \E r \in DOMAIN runs : StartRun(r)
    \/ \E r \in DOMAIN runs : ExecuteRun(r)
    \/ \E r \in DOMAIN runs : RunLoadsCounter(r)
    \/ \E r \in DOMAIN runs : RunStoresCounter(r)

SpecStats == InitStats /\ [][NextStats]_vars

RunsStarted == {r \in DOMAIN runs : runs[r].pc # "new"}

RunsInFlight == {r \in DOMAIN runs : runs[r].pc \notin {"new", "done"}}

\* C40: successful_orchestrations + failed_orchestrations never exceeds
\* total_orchestrations, and whenever no run is in flight total_orchestrations
\* equals their sum and equals the number of runs started.
C40_RunCountersConsistent ==
    /\ stats.successful_orchestrations + stats.failed_orchestrations
          <= stats.total_orchestrations
    /\ RunsInFlight = {} =>
          /\ stats.total_orchestrations
                = stats.successful_orchestrations + stats.failed_orchestrations
          /\ stats.total_orchestrations = Cardinality(RunsStarted)


(***************************************************************************)
(* UserAuthorizer: requests, decisions, expiry and wait_for_authorization  *)
(***************************************************************************)
PENDING   == "pending"
APPROVED  == "approved"
DENIED    == "denied"
EXPIRED   == "expired"
CANCELLED == "cancelled"

\* request ids that request_authorization hands out, and one it never did
RequestIds == {"auth_1", "auth_2"}

UnknownId == "auth_unknown"

Waiters == {"w1", "w2"}

\* an AuthorizationRequest; past_expiry tells whether time.time() > expires_at
NewRequest == [status |-> PENDING, past_expiry |-> FALSE]

NoWait == [pc |-> "idle", request_id |-> UnknownId, elapsed |-> FALSE, result |-> "none"]

InitAuth ==
    /\ sched_pc = "new"
    /\ mr_changes = <<>>
    /\ max_parallel_tasks = 4
    /\ tasks = <<>>
    /\ sorted_tasks = <<>>
    /\ task_batches = <<>>
    /\ min_agents = 0
    /\ max_agents = 0
    /\ rm = EmptyRM
    /\ raises = {}
    /\ OrchIdle
    /\ progress_callback = "returns"
    /\ locks = NoLocks
    /\ thread_pc = <<>>
    /\ metrics = NoMetrics
    /\ stats = NoStats
    /\ runs = <<>>
    /\ pending_requests = <<>>
    /\ completed_requests = <<>>
    /\ waiters = [w \in Waiters |-> NoWait]

\* del pending_requests[request_id]; completed_requests[request_id] = auth_request
\* (the limit of 1000 completed requests is out of reach here)
move_to_completed(P, C, request_id, auth_request) ==
    [pending   |-> [x \in DOMAIN P \ {request_id} |-> P[x]],
     completed |-> [x \in DOMAIN C \cup {request_id} |->
                       IF x = request_id THEN auth_request ELSE C[x]]]

\* _expire_request: a pending request becomes EXPIRED, anything else is left alone
expire_request(P, C, request_id) ==
    IF request_id \in DOMAIN P
    THEN move_to_completed(P, C, request_id, [P[request_id] EXCEPT !.status = EXPIRED])
    ELSE [pending |-> P, completed |-> C]

\* get_request_status: a set with the request, empty for None
get_request_status(P, C, request_id) ==
    IF request_id \in DOMAIN P THEN {P[request_id]}
    ELSE IF request_id \in DOMAIN C THEN {C[request_id]}
    ELSE {}

RECURSIVE expire_all(_, _, _)
expire_all(P, C, ids) ==
    IF ids = {} THEN [pending |-> P, completed |-> C]
    ELSE LET id == CHOOSE x \in ids : TRUE
             e  == expire_request(P, C, id)
         IN  expire_all(e.pending, e.completed, ids \ {id})

\* _cleanup_expired_requests: every pending request past expires_at expires
cleanup_expired_requests(P, C) ==
    expire_all(P, C, {id \in DOMAIN P : P[id].past_expiry})

AuthFrame ==
    UNCHANGED <<sched_vars, rm_vars, orch_vars, locks, thread_pc, metrics, stats, runs>>

RequestAuthorization(id) ==
    /\ id \notin DOMAIN pending_requests \cup DOMAIN completed_requests
    /\ pending_requests' = [x \in DOMAIN pending_requests \cup {id} |->
                               IF x = id THEN NewRequest ELSE pending_requests[x]]
    /\ UNCHANGED <<completed_requests, waiters>>
    /\ AuthFrame

\* approve_request on a pending request: EXPIRED when it is past expires_at
ApproveRequest(id) ==
    /\ id \in DOMAIN pending_requests
    /\ LET r == pending_requests[id]
           m == move_to_completed(pending_requests, completed_requests, id,
                    [r EXCEPT !.status = IF r.past_expiry THEN EXPIRED ELSE APPROVED])
       IN  pending_requests' = m.pending /\ completed_requests' = m.completed
    /\ UNCHANGED waiters
    /\ AuthFrame

DenyRequest(id) ==
    /\ id \in DOMAIN pending_requests
    /\ LET m == move_to_completed(pending_requests, completed_requests, id,
                    [pending_requests[id] EXCEPT !.status = DENIED])
       IN  pending_requests' = m.pending /\ completed_requests' = m.completed
    /\ UNCHANGED waiters
    /\ AuthFrame

CancelRequest(id) ==
    /\ id \in DOMAIN pending_requests
    /\ LET m == move_to_completed(pending_requests, completed_requests, id,
                    [pending_requests[id] EXCEPT !.status = CANCELLED])
       IN  pending_requests' = m.pending /\ completed_requests' = m.completed
    /\ UNCHANGED waiters
    /\ AuthFrame

\* the clock passes expires_at of a pending request
ExpiryPasses(id) ==
    /\ id \in DOMAIN pending_requests
    /\ ~pending_requests[id].past_expiry
    /\ pending_requests' = [pending_requests EXCEPT ![id].past_expiry = TRUE]
    /\ UNCHANGED <<completed_requests, waiters>>
    /\ AuthFrame

\* one pass of the clean-up thread that finds something to expire
CleanupExpiredRequests ==
    /\ \E id \in DOMAIN pending_requests : pending_requests[id].past_expiry
    /\ LET m == cleanup_expired_requests(pending_requests, completed_requests)
       IN  pending_requests' = m.pending /\ completed_requests' = m.completed
    /\ UNCHANGED waiters
    /\ AuthFrame

\* a thread calls wait_for_authorization(request_id, timeout) with timeout > 0
WaitBegins(w, id) ==
    /\ waiters[w].pc = "idle"
    /\ id \in DOMAIN pending_requests \cup DOMAIN completed_requests \cup {UnknownId}
    /\ waiters' = [waiters EXCEPT ![w] = [NoWait EXCEPT !.pc = "polling", !.request_id = id]]
    /\ UNCHANGED <<pending_requests, completed_requests>>
    /\ AuthFrame

\* one turn of the loop that returns: the request is unknown or not PENDING
\* (a turn that finds it PENDING sleeps and changes nothing)
WaitPolls(w) ==
    /\ waiters[w].pc = "polling"
    /\ ~waiters[w].elapsed
    /\ LET auth_request == get_request_status(pending_requests, completed_requests,
                                              waiters[w].request_id)
       IN  \/ /\ auth_request = {}
              /\ waiters' = [waiters EXCEPT ![w].pc = "returned", ![w].result = CANCELLED]
           \/ \E r \in auth_request :
                 /\ r.status # PENDING
                 /\ waiters' = [waiters EXCEPT ![w].pc = "returned", ![w].result = r.status]
    /\ UNCHANGED <<pending_requests, completed_requests>>
    /\ AuthFrame

\* the clock passes start_time + timeout while the thread sleeps
WaitTimeElapses(w) ==
    /\ waiters[w].pc = "polling"
    /\ ~waiters[w].elapsed
    /\ waiters' = [waiters EXCEPT ![w].elapsed = TRUE]
    /\ UNCHANGED <<pending_requests, completed_requests>>
    /\ AuthFrame

\* the loop ends: _expire_request(request_id) and return EXPIRED
WaitTimesOut(w) ==
    /\ waiters[w].pc = "polling"
    /\ waiters[w].elapsed
    /\ LET m == expire_request(pending_requests, completed_requests, waiters[w].request_id)
       IN  pending_requests' = m.pending /\ completed_requests' = m.completed
    /\ waiters' = [waiters EXCEPT ![w].pc = "returned", ![w].result = EXPIRED]
    /\ AuthFrame

NextAuth ==
    \/ \E id \in RequestIds : RequestAuthorization(id)
    \/ \E id \in RequestIds : ApproveRequest(id)
    \/ \E id \in RequestIds : DenyRequest(id)
    \/ \E id \in RequestIds : CancelRequest(id)
    \/ \E id \in RequestIds : ExpiryPasses(id)
    \/ CleanupExpiredRequests
    \/ \E w \in Waiters, id \in RequestIds \cup {UnknownId} : WaitBegins(w, id)
    \/ \E w \in Waiters : WaitPolls(w)
    \/ \E w \in Waiters : WaitTimeElapses(w)
    \/ \E w \in Waiters : WaitTimesOut(w)

SpecAuth == InitAuth /\ [][NextAuth]_vars

\* C37: whatever wait_for_authorization returns is Approved, Denied or
\* Expired, for known, unknown and cancelled request ids alike.
C37_WaitReturnsDecision ==
    \A w \in Waiters :
        waiters[w].pc = "returned" => waiters[w].result \in {APPROVED, DENIED, EXPIRED}


(***************************************************************************)
(* ResourceManager thread by thread: pool_lock, queue_lock, metrics_lock   *)
(*                                                                         *)
(* A step is either the acquisition of a lock (the only place a thread can *)
(* block) or the statements a thread runs up to its next acquisition.  The *)
(* locks are RLocks: a thread that owns one passes its nested "with".      *)
(***************************************************************************)
Threads == {CallerThread, MonitorThread} \cup {WorkerThread(t) : t \in DOMAIN tasks}

can_acquire(L, lock, th) == L[lock] \in {NoThread, th}

acquire(L, lock, th) == [L EXCEPT ![lock] = th]

release(L, lock) == [L EXCEPT ![lock] = NoThread]

At(th, pc) == thread_pc[th].pc = pc

Goto(th, pc) == [thread_pc EXCEPT ![th].pc = pc]

InitLocks ==
    /\ sched_pc = "planned"
    /\ mr_changes = <<ChA, ChB>>
    /\ max_parallel_tasks = 4
    /\ tasks = planned_tasks(mr_changes, MrIid)
    /\ sorted_tasks = sort_tasks_by_priority_and_dependencies(tasks)
    /\ task_batches = group_tasks_into_batches(tasks, max_parallel_tasks, sorted_tasks)
    /\ \E c \in PoolConfigs : min_agents = c[1] /\ max_agents = c[2]
    /\ rm = initialize_agent_pool(EmptyRM, min_agents)
    /\ raises \in SUBSET {"a.py"}
    /\ OrchIdle
    /\ progress_callback = "returns"
    /\ locks = NoLocks
    /\ thread_pc = [th \in Threads |->
                      [pc |-> IF th = MonitorThread THEN "sleeping" ELSE "idle", task |-> 0]]
    /\ metrics = NoMetrics
    /\ stats = NoStats
    /\ runs = <<>>
    /\ pending_requests = <<>>
    /\ completed_requests = <<>>
    /\ waiters = <<>>

LockFrame ==
    UNCHANGED <<sched_vars, min_agents, max_agents, raises, orch_pc, progress, registered,
                assign_idx, task_futures, wait_idx, batch_results, all_results, report,
                cancelled_at, cancelled_after, last_assign, run_future, cancel_pc,
                progress_callback, last_notified, stats, runs, pending_requests,
                completed_requests, waiters>>

\* ---- assign_task in the calling thread ----
\* the thread calls assign_task(task) and arrives at "with self.pool_lock"
AssignTaskCalled(t) ==
    /\ At(CallerThread, "idle")
    /\ t \notin submitted
    /\ thread_pc' = [thread_pc EXCEPT ![CallerThread] = [pc |-> "assign_enter", task |-> t]]
    /\ UNCHANGED <<rm, locks, metrics, submitted>>
    /\ LockFrame

AssignAcquiresPool ==
    /\ At(CallerThread, "assign_enter")
    /\ can_acquire(locks, "pool_lock", CallerThread)
    /\ locks' = acquire(locks, "pool_lock", CallerThread)
    /\ thread_pc' = Goto(CallerThread, "assign_pool")
    /\ UNCHANGED <<rm, metrics, submitted>>
    /\ LockFrame

\* variant: the pool lock is kept when assign_task returns
assign_task_exit_held(L) == L

\* the end of "with self.pool_lock" in assign_task
assign_task_exit(L) == release(L, "pool_lock")

\* after the last assign_task the thread waits for the handles
after_assign(S) == IF S = DOMAIN tasks THEN "waiting" ELSE "idle"

\* no Idle agent and no scaling up: the call goes on to "with self.queue_lock"
must_queue(R, maxA) == find_best_available_agent(R) = 0 /\ ~can_scale_up(R, maxA)

\* under pool_lock: an agent is found or created and the task handed to it,
\* or the thread arrives at "with self.queue_lock"
AssignInPool ==
    /\ At(CallerThread, "assign_pool")
    /\ LET t == thread_pc[CallerThread].task
       IN  IF must_queue(rm, max_agents)
           THEN /\ thread_pc' = Goto(CallerThread, "assign_queue_enter")
                /\ UNCHANGED <<rm, locks, submitted>>
           ELSE /\ \E creatable \in BOOLEAN : rm' = assign_task(rm, t, max_agents, creatable).R
                /\ locks' = assign_task_exit(locks)
                /\ submitted' = submitted \cup {t}
                /\ thread_pc' = Goto(CallerThread, after_assign(submitted'))
    /\ UNCHANGED metrics
    /\ LockFrame

AssignAcquiresQueue ==
    /\ At(CallerThread, "assign_queue_enter")
    /\ can_acquire(locks, "queue_lock", CallerThread)
    /\ locks' = acquire(locks, "queue_lock", CallerThread)
    /\ thread_pc' = Goto(CallerThread, "assign_queue")
    /\ UNCHANGED <<rm, metrics, submitted>>
    /\ LockFrame

\* task_queue.append(task), then both locks are left and None is returned
AssignInQueue ==
    /\ At(CallerThread, "assign_queue")
    /\ rm' = [rm EXCEPT !.task_queue = Append(@, thread_pc[CallerThread].task)]
    /\ locks' = assign_task_exit(release(locks, "queue_lock"))
    /\ submitted' = submitted \cup {thread_pc[CallerThread].task}
    /\ thread_pc' = Goto(CallerThread, after_assign(submitted'))
    /\ UNCHANGED metrics
    /\ LockFrame

\* ---- _run_task and the done callback in an executor thread ----
WorkerStarts(t) ==
    /\ rm.exec_queue # <<>>
    /\ Head(rm.exec_queue) = t
    /\ BusyThreads(rm, orch_pc) < max_agents
    /\ rm' = [rm EXCEPT !.exec_queue = Tail(@), !.futures[t].st = "running"]
    /\ thread_pc' = Goto(WorkerThread(t), "running")
    /\ UNCHANGED <<locks, metrics, submitted>>
    /\ LockFrame

\* agent.analyze returns or raises; _run_task writes the agent's counters and
\* status; the Future is done and the thread arrives at _on_task_completed
WorkerRuns(t) ==
    /\ At(WorkerThread(t), "running")
    /\ rm' = run_task(rm, t, tasks[t].file_path \notin raises, execution_time_of(tasks[t]))
    /\ thread_pc' = Goto(WorkerThread(t), "completed_enter")
    /\ UNCHANGED <<locks, metrics, submitted>>
    /\ LockFrame

CompletedAcquiresPool(t) ==
    /\ At(WorkerThread(t), "completed_enter")
    /\ can_acquire(locks, "pool_lock", WorkerThread(t))
    /\ locks' = acquire(locks, "pool_lock", WorkerThread(t))
    /\ thread_pc' = Goto(WorkerThread(t), "completed_pool")
    /\ UNCHANGED <<rm, metrics, submitted>>
    /\ LockFrame

\* _on_task_completed up to the call of _process_queued_tasks
release_agent(R, task) ==
    [R EXCEPT !.agents[R.futures[task].agent] =
                  [@ EXCEPT !.status = IDLE, !.current_task_id = 0, !.age = 0]]

CompletedInPool(t) ==
    /\ At(WorkerThread(t), "completed_pool")
    /\ rm' = release_agent(rm, t)
    /\ thread_pc' = Goto(WorkerThread(t), "process_enter")
    /\ UNCHANGED <<locks, metrics, submitted>>
    /\ LockFrame

ProcessAcquiresQueue(t) ==
    /\ At(WorkerThread(t), "process_enter")
    /\ can_acquire(locks, "queue_lock", WorkerThread(t))
    /\ locks' = acquire(locks, "queue_lock", WorkerThread(t))
    /\ thread_pc' = Goto(WorkerThread(t), "process_queue")
    /\ UNCHANGED <<rm, metrics, submitted>>
    /\ LockFrame

\* _process_queued_tasks under both locks (the nested assign_task passes the
\* locks its thread owns), then the callback leaves both
ProcessInQueue(t) ==
    /\ At(WorkerThread(t), "process_queue")
    /\ \E creatable \in BOOLEAN :
          rm' = Collect([process_queued_tasks(rm, max_agents, creatable)
                            EXCEPT !.futures[t].st = "closed"])
    /\ locks' = release(release(locks, "queue_lock"), "pool_lock")
    /\ thread_pc' = Goto(WorkerThread(t), "finished")
    /\ UNCHANGED <<metrics, submitted>>
    /\ LockFrame

\* ---- the monitoring thread: _update_metrics, _cleanup_inactive_agents ----
UpdateMetricsAcquiresMetrics ==
    /\ At(MonitorThread, "sleeping")
    /\ can_acquire(locks, "metrics_lock", MonitorThread)
    /\ locks' = acquire(locks, "metrics_lock", MonitorThread)
    /\ thread_pc' = Goto(MonitorThread, "metrics_pool_enter")
    /\ UNCHANGED <<rm, metrics, submitted>>
    /\ LockFrame

UpdateMetricsAcquiresPool ==
    /\ At(MonitorThread, "metrics_pool_enter")
    /\ can_acquire(locks, "pool_lock", MonitorThread)
    /\ locks' = acquire(locks, "pool_lock", MonitorThread)
    /\ thread_pc' = Goto(MonitorThread, "metrics_pool")
    /\ UNCHANGED <<rm, metrics, submitted>>
    /\ LockFrame

count_status(R, status) ==
    Cardinality({i \in DOMAIN R.agent_pool : R.agents[R.agent_pool[i]].status = status})

\* the counts taken from one list of the agents' statuses
UpdateMetricsInPool ==
    /\ At(MonitorThread, "metrics_pool")
    /\ metrics' = [metrics EXCEPT !.total_agents = Len(rm.agent_pool),
                                  !.idle_agents  = count_status(rm, IDLE),
                                  !.busy_agents  = count_status(rm, BUSY),
                                  !.error_agents = count_status(rm, ERROR)]
    /\ locks' = release(locks, "pool_lock")
    /\ thread_pc' = Goto(MonitorThread, "metrics_queue_enter")
    /\ UNCHANGED <<rm, submitted>>
    /\ LockFrame

UpdateMetricsAcquiresQueue ==
    /\ At(MonitorThread, "metrics_queue_enter")
    /\ can_acquire(locks, "queue_lock", MonitorThread)
    /\ locks' = acquire(locks, "queue_lock", MonitorThread)
    /\ thread_pc' = Goto(MonitorThread, "metrics_queue")
    /\ UNCHANGED <<rm, metrics, submitted>>
    /\ LockFrame

\* variant: the queue lock is kept for the rest of _update_metrics
update_metrics_queue_exit_held(L) == L

\* the end of "with self.queue_lock" in _update_metrics
update_metrics_queue_exit(L) == release(L, "queue_lock")

UpdateMetricsInQueue ==
    /\ At(MonitorThread, "metrics_queue")
    /\ metrics' = [metrics EXCEPT !.queued_tasks = Len(rm.task_queue)]
    /\ locks' = update_metrics_queue_exit(locks)
    /\ thread_pc' = Goto(MonitorThread, "metrics_load_enter")
    /\ UNCHANGED <<rm, submitted>>
    /\ LockFrame

\* "with self.pool_lock" of _get_system_load
GetSystemLoadAcquiresPool ==
    /\ At(MonitorThread, "metrics_load_enter")
    /\ can_acquire(locks, "pool_lock", MonitorThread)
    /\ locks' = acquire(locks, "pool_lock", MonitorThread)
    /\ thread_pc' = Goto(MonitorThread, "metrics_load")
    /\ UNCHANGED <<rm, metrics, submitted>>
    /\ LockFrame

\* busy / len(agent_pool), 0.0 for an empty pool
get_system_load(R) ==
    IF R.agent_pool = <<>> THEN [num |-> 0, den |-> 1]
    ELSE Frac(busy_agents(R), Len(R.agent_pool))

\* system_load is written and _update_metrics leaves metrics_lock
UpdateMetricsWritesLoad ==
    /\ At(MonitorThread, "metrics_load")
    /\ metrics' = [metrics EXCEPT !.system_load = get_system_load(rm)]
    /\ locks' = release(release(locks, "pool_lock"), "metrics_lock")
    /\ thread_pc' = Goto(MonitorThread, "cleanup_enter")
    /\ UNCHANGED <<rm, submitted>>
    /\ LockFrame

CleanupAcquiresPool ==
    /\ At(MonitorThread, "cleanup_enter")
    /\ can_acquire(locks, "pool_lock", MonitorThread)
    /\ locks' = acquire(locks, "pool_lock", MonitorThread)
    /\ thread_pc' = Goto(MonitorThread, "cleanup_pool")
    /\ UNCHANGED <<rm, metrics, submitted>>
    /\ LockFrame

\* _cleanup_inactive_agents under pool_lock, then time.sleep(30)
CleanupInPool ==
    /\ At(MonitorThread, "cleanup_pool")
    /\ rm' = cleanup_inactive_agents(rm, min_agents)
    /\ locks' = release(locks, "pool_lock")
    /\ thread_pc' = Goto(MonitorThread, "sleeping")
    /\ UNCHANGED <<metrics, submitted>>
    /\ LockFrame

\* the steps of a thread that stands at a lock or is inside a region
CallerLockStep ==
    \/ AssignAcquiresPool
    \/ AssignInPool
    \/ AssignAcquiresQueue
    \/ AssignInQueue

WorkerLockStep(t) ==
    \/ CompletedAcquiresPool(t)
    \/ CompletedInPool(t)
    \/ ProcessAcquiresQueue(t)
    \/ ProcessInQueue(t)

MonitorThreadStep ==
    \/ UpdateMetricsAcquiresMetrics
    \/ UpdateMetricsAcquiresPool
    \/ UpdateMetricsInPool
    \/ UpdateMetricsAcquiresQueue
    \/ UpdateMetricsInQueue
    \/ GetSystemLoadAcquiresPool
    \/ UpdateMetricsWritesLoad
    \/ CleanupAcquiresPool
    \/ CleanupInPool

NextLocks ==
    \/ \E t \in DOMAIN tasks : AssignTaskCalled(t)
    \/ AssignAcquiresPool
    \/ AssignInPool
    \/ AssignAcquiresQueue
    \/ AssignInQueue
    \/ \E t \in DOMAIN tasks : WorkerStarts(t)
    \/ \E t \in DOMAIN tasks : WorkerRuns(t)
    \/ \E t \in DOMAIN tasks : CompletedAcquiresPool(t)
    \/ \E t \in DOMAIN tasks : CompletedInPool(t)
    \/ \E t \in DOMAIN tasks : ProcessAcquiresQueue(t)
    \/ \E t \in DOMAIN tasks : ProcessInQueue(t)
    \/ UpdateMetricsAcquiresMetrics
    \/ UpdateMetricsAcquiresPool
    \/ UpdateMetricsInPool
    \/ UpdateMetricsAcquiresQueue
    \/ UpdateMetricsInQueue
    \/ GetSystemLoadAcquiresPool
    \/ UpdateMetricsWritesLoad
    \/ CleanupAcquiresPool
    \/ CleanupInPool
    \/ Tick

SpecLocks == InitLocks /\ [][NextLocks]_vars


\* the tasks of InitLocks, as a constant set
LockTasks == DOMAIN planned_tasks(<<ChA, ChB>>, MrIid)

\* the threads that call assign_task or run a done callback: each takes
\* finitely many steps
ClientLockStep == CallerLockStep \/ \E t \in LockTasks : WorkerLockStep(t)

\* A thread blocked in acquire() goes on when the lock is released, and the
\* monitoring thread, the only one that takes the locks again and again,
\* sleeps 30 seconds between two passes: a step of a client thread at a lock
\* or inside a region that is possible again and again is taken.  The
\* monitoring thread goes on once the lock it stands at stays free.  Nothing
\* obliges a caller to call assign_task or an analysis to end.
FairThreads == SF_vars(ClientLockStep) /\ WF_vars(MonitorThreadStep)

\* one agent at the start, no more agents than tasks
InitLocksFair ==
    /\ InitLocks
    /\ min_agents = 1
    /\ max_agents <= Len(tasks)

SpecLocksFair == InitLocksFair /\ [][NextLocks]_vars /\ FairThreads

\* a field of an agent named by the claim, the pool map or the queue changes
PoolStateWritten ==
    \/ rm'.agent_pool # rm.agent_pool
    \/ rm'.task_queue # rm.task_queue
    \/ \E id \in DOMAIN rm.agents \cap DOMAIN rm'.agents :
          \/ rm'.agents[id].status # rm.agents[id].status
          \/ rm'.agents[id].error_count # rm.agents[id].error_count
          \/ rm'.agents[id].total_tasks_completed # rm.agents[id].total_tasks_completed
          \/ rm'.agents[id].total_analysis_time # rm.agents[id].total_analysis_time
          \/ rm'.agents[id].performance_score # rm.agents[id].performance_score

\* the step is taken by the thread that owns pool_lock
StepOfPoolLockOwner ==
    /\ locks.pool_lock # NoThread
    /\ thread_pc'[locks.pool_lock] # thread_pc[locks.pool_lock]

\* C33: every write to an agent's status, error count or performance
\* counters, and every change of the pool map or of the queue, is a step of
\* the thread that holds pool_lock.
C33_WritesUnderPoolLock == [][PoolStateWritten => StepOfPoolLockOwner]_vars

\* C34: a thread in which an analysis task is executing holds no lock of the
\* ResourceManager, and the calling thread does not hold pool_lock while it
\* waits for the task handles.
C34_NoLockWhileRunningOrWaiting ==
    /\ \A t \in DOMAIN tasks :
          At(WorkerThread(t), "running") =>
              \A lock \in DOMAIN locks : locks[lock] # WorkerThread(t)
    /\ At(CallerThread, "waiting") => locks.pool_lock # CallerThread

\* the caller waits and a task is being analysed while another thread is
\* inside a pool_lock region
C34_Witness ==
    /\ At(CallerThread, "waiting")
    /\ \E t \in DOMAIN tasks : At(WorkerThread(t), "running")
    /\ locks.pool_lock # NoThread

\* the monitoring thread is between two passes of _update_metrics
SnapshotComplete == thread_pc[MonitorThread].pc \in {"cleanup_enter", "cleanup_pool", "sleeping"}

\* C35: a snapshot written by a pass has system_load = busy_agents /
\* total_agents and idle_agents + busy_agents + error_agents <= total_agents.
C35_SnapshotConsistent ==
    SnapshotComplete =>
        /\ metrics.system_load = IF metrics.total_agents = 0 THEN [num |-> 0, den |-> 1]
                                 ELSE Frac(metrics.busy_agents, metrics.total_agents)
        /\ metrics.idle_agents + metrics.busy_agents + metrics.error_agents
              <= metrics.total_agents

LockThreads == {CallerThread, MonitorThread} \cup {WorkerThread(t) : t \in LockTasks}

\* the thread stands at a "with <lock>" and has not entered it
Requesting(th) ==
    thread_pc[th].pc \in {"assign_enter", "assign_queue_enter", "completed_enter",
                          "process_enter", "metrics_pool_enter", "metrics_queue_enter",
                          "metrics_load_enter", "cleanup_enter"}

\* C38: every thread that requests pool_lock, queue_lock or metrics_lock
\* eventually acquires it.
C38_EveryLockRequestGranted ==
    \A th \in LockThreads : Requesting(th) ~> ~Requesting(th)

\* a callback owns pool_lock and stands at queue_lock while the monitoring
\* thread owns queue_lock; the caller stands at pool_lock
C38_Witness ==
    /\ \E t \in DOMAIN tasks :
          /\ At(WorkerThread(t), "process_enter")
          /\ locks.pool_lock = WorkerThread(t)
    /\ locks.queue_lock = MonitorThread
    /\ At(CallerThread, "assign_enter")

====
